---- MODULE Spec2Model ----
(***************************************************************************)
(* Model of carpeta-a-pdf-txt-csv: the selection dialogs (CheckTreeDialog) *)
(* and the scanners (file_is_allowed / scan_project) of                    *)
(*   src/convertidor_gui.py      (the "basic" variant)                     *)
(*   src/convertidor_gui_pro.py  (the "pro" variant).                      *)
(*                                                                         *)
(* A path is the sequence of its components below "/", so <<"r","sub">>    *)
(* is /r/sub.  A tree item of a dialog is identified with the path it was  *)
(* inserted for (Tk gives every inserted row a fresh iid, one per path).   *)
(***************************************************************************)
EXTENDS Integers, Sequences, FiniteSets, TLC

VARIABLES
    variant,         \* "basic" | "pro": which source file is running
    fs,              \* "plain" | "links": the directory on disk
    selected_paths,  \* ConvertidorGUI.selected_paths
    dlgOpen,         \* a CheckTreeDialog is on screen
    preselected,     \* CheckTreeDialog.preselected
    checked,         \* CheckTreeDialog.checked : item -> state
    kids,            \* the Treeview: item -> sequence of its attached children
    item_paths,      \* pro: CheckTreeDialog.item_paths, in insertion order
    placeholder,     \* pro: directories that hold the empty placeholder row
    var_filter,      \* basic: var_filter; pro: <<filter_name_var, filter_ext_var>>
    filter_job,      \* pro: _filter_job is pending
    result,          \* CheckTreeDialog.result
    dialogs,         \* the number of dialogs opened so far
    touched,         \* history: a toggle or bulk operation ran since the dialog opened
    lastClick,       \* history: <<item, state before>> of the click just made, or <<>>
    twice,           \* history: <<leaf, state before the first>> after two clicks in a row
    inverted,        \* history: <<checked before>> of the inversion just made, or <<>>
    crashed,         \* history: what the constructor of the last dialog raised, or ""
    scanSel,         \* scan_project: the 'selected' argument
    listRev,         \* scan_project: the directory listing order the OS returned
    scanned,         \* scan_project has returned
    arbol,           \* scan_project: the index tree
    files,           \* scan_project: the content list
    exts_var,        \* pro: ConvertidorGUI.exts_var, as characters
    probe,           \* the path should_convert is asked about
    matchRes,        \* <<>>, or <<parse_exts(exts_var), should_convert(probe)>>
    project_path,    \* ConvertidorGUI.project_path
    format_var,      \* ConvertidorGUI.format_var
    fpdf,            \* the import of fpdf succeeded (FPDF is not None)
    writable,        \* the output file can be opened for writing
    workers,         \* the live _convert threads: what each has still to do
    log_queue,       \* pro: ConvertidorGUI.log_queue
    controls,        \* pro: the state _toggle_controls gave the controls
    progress_bar,    \* pro: progress_bar["value"], as <<numerator, denominator>>
    last_output_path,\* pro: ConvertidorGUI.last_output_path, <<>> is None
    btn_open_output, \* pro: btn_open_output is enabled
    outputs,         \* the output files written: file -> content
    sent,            \* history: the messages put on log_queue since the job started
    outcomes,        \* history: the message boxes shown since the job started
    job              \* the inputs of the last job: as they were when it was
                     \* started (history) and as its thread read them, and
                     \* how many jobs were started so far (history)

vars == <<variant, fs, selected_paths, dlgOpen, preselected, checked, kids,
          item_paths, placeholder, var_filter, filter_job, result, dialogs,
          touched, lastClick, twice, inverted, crashed, scanSel, listRev, scanned,
          arbol, files, exts_var, probe, matchRes, project_path, format_var, fpdf, writable,
          workers, log_queue, controls, progress_bar, last_output_path, btn_open_output,
          outputs, sent, outcomes, job>>

dlgVars == <<dlgOpen, preselected, checked, kids, item_paths, placeholder,
             var_filter, filter_job, result, dialogs, touched, lastClick, twice,
             inverted, crashed>>

\* what only __init__ of a dialog changes
openVars == <<variant, fs, preselected, dialogs>>

None == "None"

\* how many dialogs are opened in a run
MaxDialogs == 2

scanVars == <<scanSel, listRev, scanned, arbol, files>>

filterVars == <<exts_var, probe, matchRes>>

jobVars == <<project_path, format_var, fpdf, writable, workers, log_queue,
             controls, progress_bar, last_output_path, btn_open_output, outputs, sent, outcomes,
             job>>

(***************************************************************************)
(* The filesystem.  "plain" is the directory {a.txt, sub/b.txt,            *)
(* sub/.git/config}; "links" adds the symlinks lnk.txt -> sub/b.txt and    *)
(* sl -> sub; "noread" is "plain" with an a.txt that cannot be opened and  *)
(* a config whose bytes are not UTF-8; in "noperm" the directory sub        *)
(* cannot be listed, and in "vanished" it is gone by the time it is.       *)
(***************************************************************************)
Base == <<"r">>

RealDirs == { <<"r">>, <<"r","sub">>, <<"r","sub",".git">> }

RealFiles == { <<"r","a.txt">>, <<"r","sub","b.txt">>, <<"r","sub",".git","config">> }

LinkFile == <<"r","lnk.txt">>

LinkDir == <<"r","sl">>

SymLinks == IF fs = "links" THEN {LinkFile, LinkDir} ELSE {}

LinkTarget(p) == IF p = LinkFile THEN <<"r","sub","b.txt">> ELSE <<"r","sub">>

Entries == RealDirs \cup RealFiles \cup SymLinks

IsPrefix(s, t) == Len(s) <= Len(t) /\ SubSeq(t, 1, Len(s)) = s

Last(s) == s[Len(s)]

Front(s) == SubSeq(s, 1, Len(s) - 1)

\* Path.resolve(): symlinks are replaced component by component
RECURSIVE ResolveFrom(_, _)
ResolveFrom(done, rest) ==
    IF rest = <<>> THEN done
    ELSE LET next == Append(done, Head(rest))
         IN  IF next \in SymLinks
             THEN ResolveFrom(LinkTarget(next), Tail(rest))
             ELSE ResolveFrom(next, Tail(rest))

resolve(p) == ResolveFrom(<<>>, p)

is_dir(p) == resolve(p) \in RealDirs

is_file(p) == resolve(p) \in RealFiles

\* Path.iterdir(): the entries of the directory p names, each spelled below p
iterdir(p) ==
    { Append(p, Last(e)) : e \in { x \in Entries : Len(x) = Len(resolve(p)) + 1
                                                   /\ Front(x) = resolve(p) } }

\* what listing the directory p raises
IterError(p) ==
    CASE fs = "noperm" /\ resolve(p) = <<"r","sub">> -> "PermissionError"
      [] fs = "vanished" /\ resolve(p) = <<"r","sub">> -> "FileNotFoundError"
      [] OTHER -> "none"

(***************************************************************************)
(* Characters.  Names are spelled out so that substring and suffix tests   *)
(* are made on characters, as str.__contains__ and str.endswith make them. *)
(***************************************************************************)
Spell(name) ==
    CASE name = "r"       -> <<"r">>
      [] name = "sub"     -> <<"s","u","b">>
      [] name = ".git"    -> <<".","g","i","t">>
      [] name = "a.txt"   -> <<"a",".","t","x","t">>
      [] name = "b.txt"   -> <<"b",".","t","x","t">>
      [] name = "config"  -> <<"c","o","n","f","i","g">>
      [] name = "lnk.txt" -> <<"l","n","k",".","t","x","t">>
      [] name = "sl"      -> <<"s","l">>
      [] name = "a.py"    -> <<"a",".","p","y">>
      [] name = "b.md"    -> <<"b",".","m","d">>
      [] name = "c.pdf"   -> <<"c",".","p","d","f">>
      [] name = "d.txt"   -> <<"d",".","t","x","t">>
      [] name = "E.PY"    -> <<"E",".","P","Y">>
      [] name = "Makefile" -> <<"M","a","k","e","f","i","l","e">>

LowerChar(c) ==
    CASE c = "A" -> "a" [] c = "B" -> "b" [] c = "D" -> "d" [] c = "G" -> "g"
      [] c = "M" -> "m" [] c = "O" -> "o" [] c = "P" -> "p" [] c = "S" -> "s"
      [] c = "T" -> "t" [] c = "X" -> "x" [] c = "Y" -> "y" [] OTHER -> c

\* str.lower()
lower(s) == [i \in 1..Len(s) |-> LowerChar(s[i])]

\* str.strip()
RECURSIVE strip(_)
strip(s) ==
    IF s = <<>> THEN s
    ELSE IF Head(s) = " " THEN strip(Tail(s))
    ELSE IF Last(s) = " " THEN strip(Front(s))
    ELSE s

\* pat in s
Contains(pat, s) ==
    \E i \in 0..(Len(s) - Len(pat)) : SubSeq(s, i + 1, i + Len(pat)) = pat

\* s.endswith(suf)
endswith(s, suf) ==
    Len(suf) <= Len(s) /\ SubSeq(s, Len(s) - Len(suf) + 1, Len(s)) = suf

\* str(path)
RECURSIVE PathStr(_)
PathStr(p) ==
    IF p = <<>> THEN <<>> ELSE PathStr(Front(p)) \o <<"/">> \o Spell(Last(p))

\* name.lower() order of the names on disk (sort key of the dialogs)
NameRank(name) ==
    CASE name = ".git" -> 1 [] name = "a.txt" -> 2 [] name = "b.txt" -> 3
      [] name = "config" -> 4 [] name = "lnk.txt" -> 5 [] name = "r" -> 6
      [] name = "sl" -> 7 [] name = "sub" -> 8

\* key=lambda p: (not p.is_dir(), p.name.lower())
SortKey(p) == (IF is_dir(p) THEN 0 ELSE 10) + NameRank(Last(p))

RECURSIVE SortByKey(_)
SortByKey(S) ==
    IF S = {} THEN <<>>
    ELSE LET m == CHOOSE x \in S : \A y \in S : SortKey(x) <= SortKey(y)
         IN  <<m>> \o SortByKey(S \ {m})

SeqToSet(s) == { s[i] : i \in 1..Len(s) }

RemoveFrom(s, x) == SelectSeq(s, LAMBDA y : y # x)

(***************************************************************************)
(* CheckTreeDialog of src/convertidor_gui.py (basic variant)               *)
(***************************************************************************)
Top == <<>>

\* Treeview.parent(iid): "" for a top-level item and for a detached one
parent(kd, iid) ==
    IF \E j \in DOMAIN kd : iid \in SeqToSet(kd[j])
    THEN CHOOSE j \in DOMAIN kd : iid \in SeqToSet(kd[j])
    ELSE Top

\* Treeview.reattach(iid, par, "end")
reattach(kd, iid, par) ==
    LET off == [j \in DOMAIN kd |-> RemoveFrom(kd[j], iid)]
    IN  [off EXCEPT ![par] = Append(@, iid)]

\* Treeview.detach(iid)
detach(kd, iid) == [j \in DOMAIN kd |-> RemoveFrom(kd[j], iid)]

\* the items reachable from "" through get_children
RECURSIVE Attached(_, _)
Attached(kd, iid) ==
    {iid} \cup UNION { Attached(kd, c) : c \in SeqToSet(kd[iid]) }

Displayed(kd) == Attached(kd, Top) \ {Top}

\* mutant: an empty pre-selection read as "everything is selected"
Basic_insert_item_all(pre, path) ==
    IF pre = {} \/ path \in pre THEN "checked" ELSE "unchecked"

Basic_insert_item(pre, path) ==
    IF path \in pre THEN "checked" ELSE "unchecked"

\* _insert_item and add_children for the paths of todo, in their order: the
\* paths inserted, and whether iterdir raised what add_children lets through
RECURSIVE Basic_add_children(_, _)
Basic_add_children(acc, todo) ==
    IF todo = <<>> THEN acc
    ELSE LET p == Head(todo)
             ins == [acc EXCEPT !.items = Append(@, p)]
         IN  IF ~is_dir(p) \/ IterError(p) = "PermissionError"
             THEN Basic_add_children(ins, Tail(todo))
             ELSE IF IterError(p) # "none"
             THEN [ins EXCEPT !.raised = IterError(p)]
             ELSE Basic_add_children(ins, SortByKey(iterdir(p)) \o Tail(todo))

Basic_populate_tree(root, pre) ==
    LET built == Basic_add_children([items |-> <<>>, raised |-> ""], <<root>>)
        items == SeqToSet(built.items)
    IN  [checked |-> [i \in items |-> Basic_insert_item(pre, i)],
         kids    |-> [i \in items \cup {Top} |->
                        IF i = Top THEN <<root>>
                        ELSE IF is_dir(i) /\ IterError(i) = "none"
                        THEN SelectSeq(SortByKey(iterdir(i)), LAMBDA c : c \in items)
                        ELSE <<>>],
         raised  |-> built.raised]

RECURSIVE Basic_update_parents(_, _, _)
Basic_update_parents(chk, kd, iid) ==
    LET par == parent(kd, iid)
    IN  IF par = Top THEN chk
        ELSE LET states == { chk[c] : c \in SeqToSet(kd[par]) }
                 st == IF states \subseteq {"checked"} THEN "checked"
                       ELSE IF states \subseteq {"unchecked"} THEN "unchecked"
                       ELSE "partial"
             IN  Basic_update_parents([chk EXCEPT ![par] = st], kd, par)

RECURSIVE Basic_toggle_item(_, _, _, _)
RECURSIVE Basic_toggle_each(_, _, _, _)
\* mutant: a click always checks
Basic_toggle_item_set(chk, kd, iid, target_state) ==
    LET new_state == IF target_state # None THEN target_state ELSE "checked"
        own == [chk EXCEPT ![iid] = new_state]
    IN  Basic_update_parents(Basic_toggle_each(own, kd, kd[iid], new_state), kd, iid)

Basic_toggle_item(chk, kd, iid, target_state) ==
    LET current == chk[iid]
        new_state == IF target_state # None THEN target_state
                     ELSE IF current = "checked" THEN "unchecked" ELSE "checked"
        own == [chk EXCEPT ![iid] = new_state]
        sons == Basic_toggle_each(own, kd, kd[iid], new_state)
    IN  Basic_update_parents(sons, kd, iid)

\* for iid in seq: self._toggle_item(iid, st)
Basic_toggle_each(chk, kd, seq, st) ==
    IF seq = <<>> THEN chk
    ELSE Basic_toggle_each(Basic_toggle_item(chk, kd, Head(seq), st), kd, Tail(seq), st)

RECURSIVE IterStack(_, _)
IterStack(kd, stack) ==
    IF stack = <<>> THEN <<>>
    ELSE <<Last(stack)>> \o IterStack(kd, Front(stack) \o kd[Last(stack)])

Basic_iter_all_items(kd) == IterStack(kd, kd[Top])

\* the text of a row without its mark: text[2:]
ItemName(iid) ==
    <<" ">> \o Spell(Last(iid)) \o (IF is_dir(iid) THEN <<"/">> ELSE <<>>)

Basic_visible_self(pattern, iid) ==
    \/ pattern = <<>>
    \/ Contains(pattern, lower(ItemName(iid)))
    \/ (PathStr(iid) # <<>> /\ Contains(pattern, lower(PathStr(iid))))

RECURSIVE Basic_filter_rec(_, _, _)
RECURSIVE Basic_filter_each(_, _, _, _)
Basic_filter_rec(kd, pattern, iid) ==
    LET below == Basic_filter_each(kd, pattern, kd[iid], FALSE)
        visible == Basic_visible_self(pattern, iid) \/ below.vis
    IN  [vis |-> visible,
         kd  |-> IF visible THEN reattach(below.kd, iid, parent(below.kd, iid))
                 ELSE detach(below.kd, iid)]

Basic_filter_each(kd, pattern, seq, any) ==
    IF seq = <<>> THEN [vis |-> any, kd |-> kd]
    ELSE LET r == Basic_filter_rec(kd, pattern, Head(seq))
         IN  Basic_filter_each(r.kd, pattern, Tail(seq), any \/ r.vis)

Basic_filter_tree(kd, text) ==
    Basic_filter_each(kd, strip(lower(text)), kd[Top], FALSE).kd

\* mutant: only the rows still attached to the tree are gathered
Basic_gather_attached(chk) ==
    { i \in DOMAIN chk : chk[i] = "checked" /\ i \in Displayed(kids) }

Basic_gather_checked_paths(chk) ==
    { i \in DOMAIN chk : chk[i] = "checked" /\ PathStr(i) # <<>> }

(***************************************************************************)
(* CheckTreeDialog of src/convertidor_gui_pro.py (pro variant).  The state *)
(* of a dialog is passed around as a record d of its four collections.     *)
(***************************************************************************)
Pro_update_item_visuals(chk, iid, state) == (iid :> state) @@ chk

Pro_insert_item(d, parent_id, path, pre) ==
    [checked     |-> Pro_update_item_visuals(d.checked, path,
                        IF path \in pre THEN "checked" ELSE "unchecked"),
     kids        |-> (path :> <<>>) @@ [d.kids EXCEPT ![parent_id] = Append(@, path)],
     item_paths  |-> Append(d.item_paths, path),
     placeholder |-> IF is_dir(path) /\ IterError(path) = "none" /\ iterdir(path) # {}
                     THEN d.placeholder \cup {path} ELSE d.placeholder]

RECURSIVE Pro_update_parents_visuals(_, _, _)
\* mutant: a parent is checked as soon as one child is
Pro_update_parents_any(chk, kd, iid) ==
    LET parent_iid == parent(kd, iid)
        known == { c \in SeqToSet(kd[parent_iid]) : c \in DOMAIN chk }
    IN  IF parent_iid = Top \/ known = {} THEN chk
        ELSE Pro_update_parents_visuals(
                 Pro_update_item_visuals(chk, parent_iid,
                     IF \E c \in known : chk[c] = "checked"
                     THEN "checked" ELSE "unchecked"),
                 kd, parent_iid)

Pro_update_parents_visuals(chk, kd, iid) ==
    LET parent_iid == parent(kd, iid)
        known == { c \in SeqToSet(kd[parent_iid]) : c \in DOMAIN chk }
        states == { chk[c] : c \in known }
    IN  IF parent_iid = Top THEN chk
        ELSE IF known = {} THEN chk
        ELSE Pro_update_parents_visuals(
                 Pro_update_item_visuals(chk, parent_iid,
                     IF states \subseteq {"checked"} THEN "checked" ELSE "unchecked"),
                 kd, parent_iid)

RECURSIVE Pro_toggle_item(_, _, _, _, _)
RECURSIVE Pro_toggle_children(_, _, _, _)
Pro_toggle_item(chk, kd, iid, target_state, update_logic) ==
    LET current == IF iid \in DOMAIN chk THEN chk[iid] ELSE "unchecked"
        new_state == IF target_state # None THEN target_state
                     ELSE IF current = "checked" THEN "unchecked" ELSE "checked"
        own == Pro_update_item_visuals(chk, iid, new_state)
    IN  IF update_logic
        THEN Pro_update_parents_visuals(
                 Pro_toggle_children(own, kd, kd[iid], new_state), kd, iid)
        ELSE own

\* for child in get_children(iid): if child in self.checked: toggle it
Pro_toggle_children(chk, kd, seq, st) ==
    IF seq = <<>> THEN chk
    ELSE Pro_toggle_children(
             IF Head(seq) \in DOMAIN chk
             THEN Pro_toggle_item(chk, kd, Head(seq), st, TRUE) ELSE chk,
             kd, Tail(seq), st)

\* the loop of _load_children over the sorted entries
RECURSIVE Pro_insert_entries(_, _, _, _, _, _)
Pro_insert_entries(d, parent_iid, entries, pre, filter_name, filter_ext) ==
    IF entries = <<>> THEN d
    ELSE LET path == Head(entries)
             name_lower == lower(Spell(Last(path)))
             skip == \/ (filter_name # <<>> /\ ~Contains(filter_name, name_lower))
                     \/ (~is_dir(path) /\ filter_ext # <<>>
                           /\ ~endswith(name_lower, filter_ext))
         IN  Pro_insert_entries(
                 IF skip THEN d ELSE Pro_insert_item(d, parent_iid, path, pre),
                 parent_iid, Tail(entries), pre, filter_name, filter_ext)

Pro_load_children(d, parent_iid, pre, flt) ==
    LET cleared == [d EXCEPT !.kids[parent_iid] = <<>>,
                             !.placeholder = @ \ {parent_iid}]
        filled == Pro_insert_entries(cleared, parent_iid,
                      SortByKey(iterdir(parent_iid)), pre, lower(flt[1]), lower(flt[2]))
    IN  IF IterError(parent_iid) # "none" THEN cleared
        ELSE [filled EXCEPT !.checked =
                Pro_toggle_item(filled.checked, filled.kids, parent_iid,
                                filled.checked[parent_iid], TRUE)]

Pro_populate_tree(root, pre, flt) ==
    Pro_load_children(
        Pro_insert_item([checked |-> <<>>, kids |-> (Top :> <<>>),
                         item_paths |-> <<>>, placeholder |-> {}],
                        Top, root, pre),
        root, pre, flt)

\* for iid in seq: self._toggle_item(iid, st, update_logic=False)
RECURSIVE Pro_set_each(_, _, _, _)
Pro_set_each(chk, kd, seq, st) ==
    IF seq = <<>> THEN chk
    ELSE Pro_set_each(Pro_toggle_item(chk, kd, Head(seq), st, FALSE), kd, Tail(seq), st)

\* for iid in self.item_paths: self._update_parents_visuals(iid)
RECURSIVE Pro_update_each(_, _, _)
Pro_update_each(chk, kd, seq) ==
    IF seq = <<>> THEN chk
    ELSE Pro_update_each(Pro_update_parents_visuals(chk, kd, Head(seq)), kd, Tail(seq))

Pro_select_all_op(chk, kd, ips) ==
    Pro_update_each(Pro_set_each(chk, kd, ips, "checked"), kd, ips)

Pro_deselect_all_op(chk, kd, ips) ==
    Pro_update_each(Pro_set_each(chk, kd, ips, "unchecked"), kd, ips)

RECURSIVE Pro_invert_each(_, _, _)
\* mutant: the inversion of an item is passed on to its children
Pro_invert_each_deep(chk, kd, seq) ==
    IF seq = <<>> THEN chk
    ELSE Pro_invert_each(
             Pro_toggle_item(chk, kd, Head(seq),
                 IF chk[Head(seq)] = "checked" THEN "unchecked" ELSE "checked", TRUE),
             kd, Tail(seq))

Pro_invert_each(chk, kd, seq) ==
    IF seq = <<>> THEN chk
    ELSE Pro_invert_each(
             Pro_toggle_item(chk, kd, Head(seq),
                 IF chk[Head(seq)] = "checked" THEN "unchecked" ELSE "checked", FALSE),
             kd, Tail(seq))

Pro_invert_selection_op(chk, kd, ips) ==
    Pro_update_each(Pro_invert_each(chk, kd, ips), kd, ips)

Pro_accept_result(chk, ips) ==
    { ips[k] : k \in { j \in 1..Len(ips) :
                        ips[j] \in DOMAIN chk /\ chk[ips[j]] = "checked" } }

(***************************************************************************)
(* Reading files and scanning (both variants)                              *)
(***************************************************************************)
\* Path.suffix: from the last dot of the name, unless the name starts with it
Suffix(name) ==
    LET s == Spell(name)
        dots == { i \in 2..Len(s) : s[i] = "." }
    IN  IF dots = {} THEN <<>>
        ELSE SubSeq(s, CHOOSE i \in dots : \A j \in dots : j <= i, Len(s))

\* the members of TEXT_EXTS that the names on disk can have
TEXT_EXTS == { <<".","t","x","t">>, <<".","m","d">>, <<".","p","y">> }

\* how the bytes of a file decode: a.txt and config are UTF-8, b.txt is not;
\* "error" is a file that open() raises on
Encoding(f) ==
    CASE resolve(f) = <<"r","sub","b.txt">> -> "latin1"
      [] resolve(f) = <<"r","a.txt">> /\ fs = "noread" -> "error"
      [] resolve(f) = <<"r","sub",".git","config">> /\ fs = "noread" -> "latin1"
      [] OTHER -> "utf8"

\* the text of a file split into lines, line ends kept (splitlines(True));
\* a line is the sequence of the pieces of text it is put together from, a
\* newline being a piece of its own; the last line of a.txt has none
DiskLines(f) ==
    CASE resolve(f) = <<"r","a.txt">> -> << <<"alpha", "\n">>, <<"beta">> >>
      [] resolve(f) = <<"r","sub","b.txt">> -> << <<"caf\\xe9", "\n">> >>
      [] OTHER -> << <<"[core]", "\n">> >>

Basic_is_text_file(path) ==
    \/ lower(Suffix(Last(path))) \in TEXT_EXTS
    \/ Encoding(path) = "utf8"

Basic_read_text_file(path) ==
    IF Encoding(path) \in {"utf8", "latin1"} THEN DiskLines(path) ELSE <<>>

Pro_read_text_file(path) ==
    IF Encoding(path) \in {"utf8", "latin1"} THEN DiskLines(path)
    ELSE << <<"[ERROR: No se pudo leer el archivo]", "\n">> >>

\* a 'selected' argument: <<>> is None, <<S>> is the set S
NoSelection == <<>>

\* Python's "not selected"
Falsy(selected) == selected = NoSelection \/ selected[1] = {}

\* mutant: only None, not the empty set, lifts the restriction
Basic_file_is_allowed_none(file_path, selected, base) ==
    \/ selected = NoSelection
    \/ \E sel \in selected[1] :
          \/ resolve(file_path) = resolve(sel)
          \/ is_dir(resolve(sel)) /\ IsPrefix(resolve(sel), resolve(file_path))

Basic_file_is_allowed(file_path, selected, base) ==
    \/ Falsy(selected)
    \/ \E sel \in selected[1] :
          LET f_abs == resolve(file_path)
              s_abs == resolve(sel)
          IN  \/ f_abs = s_abs
              \/ is_dir(s_abs) /\ IsPrefix(s_abs, f_abs)

\* f_abs.parents
Parents(q) == { SubSeq(q, 1, k) : k \in 0..(Len(q) - 1) }

\* mutant: only the directory that holds the file is looked at
Pro_file_is_allowed_parent(file_path, selected_resolved) ==
    \/ Falsy(selected_resolved)
    \/ \E sel \in selected_resolved[1] :
          \/ resolve(file_path) = sel
          \/ is_dir(sel) /\ sel = Front(resolve(file_path))

Pro_file_is_allowed(file_path, selected_resolved) ==
    \/ Falsy(selected_resolved)
    \/ \E sel \in selected_resolved[1] :
          LET f_abs == resolve(file_path)
          IN  f_abs = sel \/ (is_dir(sel) /\ sel \in Parents(f_abs))

\* the order in which the OS lists the names of a directory
NameOrder(n) == IF listRev THEN 0 - NameRank(n) ELSE NameRank(n)

RECURSIVE ListSorted(_)
ListSorted(S) ==
    IF S = {} THEN <<>>
    ELSE LET m == CHOOSE x \in S :
                     \A y \in S : NameOrder(Last(x)) <= NameOrder(Last(y))
         IN  <<m>> \o ListSorted(S \ {m})

\* os.scandir(d)
ListDir(d) == ListSorted(iterdir(d))

RECURSIVE Flatten(_)
Flatten(ss) ==
    IF ss = <<>> THEN <<>>
    ELSE IF Len(ss) = 1 THEN ss[1]
    ELSE LET half == Len(ss) \div 2
         IN  Flatten(SubSeq(ss, 1, half)) \o Flatten(SubSeq(ss, half + 1, Len(ss)))

\* the directories os.walk and rglob descend into: no symlinks
SubDirs(d) == SelectSeq(ListDir(d), LAMBDA e : is_dir(e) /\ e \notin SymLinks)

\* os.walk(top): the sequence of (root, filenames)
RECURSIVE os_walk(_)
os_walk(top) ==
    <<[root |-> top,
       filenames |-> SelectSeq(ListDir(top), LAMBDA e : ~is_dir(e))]>>
    \o Flatten([k \in 1..Len(SubDirs(top)) |-> os_walk(SubDirs(top)[k])])

\* mutant: directories whose name starts with a dot are not walked
RECURSIVE rglob(_)
rglob_nodot(d) ==
    ListDir(d)
    \o Flatten([k \in 1..Len(SubDirs(d)) |->
                  IF Head(Spell(Last(SubDirs(d)[k]))) = "." THEN <<>>
                  ELSE rglob(SubDirs(d)[k])])

\* base.rglob('*')
rglob(d) ==
    ListDir(d) \o Flatten([k \in 1..Len(SubDirs(d)) |-> rglob(SubDirs(d)[k])])

\* path.relative_to(base)
relative_to(path, base) == SubSeq(path, Len(base) + 1, Len(path))

\* nodo = arbol; for parte in parts: nodo = nodo.setdefault(parte, {})
setdefault_dirs(arb, parts) ==
    [d \in DOMAIN arb \cup { SubSeq(parts, 1, k) : k \in 0..Len(parts) } |->
        IF d \in DOMAIN arb THEN arb[d] ELSE <<>>]

\* nodo.setdefault("__files__", []).append(name)
append_file(arb, parts, name) == [arb EXCEPT ![parts] = Append(@, name)]

\* lines of a file as scan_project of the basic variant takes them
Basic_lines(ruta) ==
    IF Basic_is_text_file(ruta) THEN Basic_read_text_file(ruta)
    ELSE << <<"[BINARY FILE OMITTED: ", Last(ruta), "]", "\n">> >>

\* mutant: the name is put in the index before the selection is asked
Basic_scan_file_ghost(acc, root_path, ruta, selected, base) ==
    LET listed == [acc EXCEPT !.arbol =
                      append_file(@, relative_to(root_path, base), Last(ruta))]
    IN  IF ~Basic_file_is_allowed(ruta, selected, base) THEN listed
        ELSE [listed EXCEPT !.files =
                 Append(@, <<relative_to(ruta, base), Basic_lines(ruta)>>)]

\* the body of "for name in filenames"
Basic_scan_file(acc, root_path, ruta, selected, base) ==
    IF ~Basic_file_is_allowed(ruta, selected, base) THEN acc
    ELSE [arbol |-> append_file(acc.arbol, relative_to(root_path, base), Last(ruta)),
          files |-> Append(acc.files, <<relative_to(ruta, base), Basic_lines(ruta)>>)]

RECURSIVE Basic_scan_files(_, _, _, _, _)
Basic_scan_files(acc, root_path, filenames, selected, base) ==
    IF filenames = <<>> THEN acc
    ELSE Basic_scan_files(
             Basic_scan_file(acc, root_path, Head(filenames), selected, base),
             root_path, Tail(filenames), selected, base)

\* the body of "for root, _, filenames in os.walk(base)"
RECURSIVE Basic_scan_walk(_, _, _, _)
Basic_scan_walk(acc, walk, selected, base) ==
    IF walk = <<>> THEN acc
    ELSE LET w == Head(walk)
             made == [acc EXCEPT !.arbol =
                         setdefault_dirs(@, relative_to(w.root, base))]
         IN  Basic_scan_walk(
                 Basic_scan_files(made, w.root, w.filenames, selected, base),
                 Tail(walk), selected, base)

Basic_scan_project(base, selected) ==
    Basic_scan_walk([arbol |-> (<<>> :> <<>>), files |-> <<>>],
                    os_walk(base), selected, base)

\* mutant: the selection is compared as given, not resolved
Pro_selected_raw(selected) == selected

\* selected_resolved = {p.resolve() for p in selected} if selected else None
Pro_selected_resolved(selected) ==
    IF Falsy(selected) THEN NoSelection
    ELSE << { resolve(q) : q \in selected[1] } >>

\* the body of "for i, ruta_completa in enumerate(all_paths)"
Pro_scan_file(acc, ruta_completa, selected_resolved, base) ==
    IF ~Pro_file_is_allowed(ruta_completa, selected_resolved) THEN acc
    ELSE LET rel_path == relative_to(ruta_completa, base)
         IN  [arbol |-> append_file(setdefault_dirs(acc.arbol, Front(rel_path)),
                                    Front(rel_path), Last(rel_path)),
              files |-> Append(acc.files,
                               <<rel_path, Pro_read_text_file(ruta_completa)>>)]

RECURSIVE Pro_scan_paths(_, _, _, _)
Pro_scan_paths(acc, all_paths, selected_resolved, base) ==
    IF all_paths = <<>> THEN acc
    ELSE Pro_scan_paths(Pro_scan_file(acc, Head(all_paths), selected_resolved, base),
                        Tail(all_paths), selected_resolved, base)

Pro_scan_project(base, selected) ==
    Pro_scan_paths([arbol |-> (<<>> :> <<>>), files |-> <<>>],
                   SelectSeq(rglob(base), is_file),
                   Pro_selected_resolved(selected), base)

(***************************************************************************)
(* The extension filter of the pro variant: parse_exts and should_convert  *)
(***************************************************************************)
\* str.split(","), on characters
RECURSIVE split_comma(_, _)
split_comma(cur, rest) ==
    IF rest = <<>> THEN <<cur>>
    ELSE IF Head(rest) = "," THEN <<cur>> \o split_comma(<<>>, Tail(rest))
    ELSE split_comma(Append(cur, Head(rest)), Tail(rest))

\* str.lstrip(".")
RECURSIVE lstrip_dot(_)
lstrip_dot(s) ==
    IF s # <<>> /\ Head(s) = "." THEN lstrip_dot(Tail(s)) ELSE s

\* the words parse_exts reads as "everything"
AllWords == { <<"*">>, <<"t","o","d","o","s">>, <<"T","O","D","O","S">> }

\* what parse_exts returns for "convert everything": None
NoFilter == <<>>

\* parts = [p.strip() for p in spec.split(",") if p.strip()]
parse_parts(spec) ==
    LET raw == split_comma(<<>>, spec)
    IN  SelectSeq([k \in 1..Len(raw) |-> strip(raw[k])], LAMBDA q : q # <<>>)

\* mutant: the words are looked up without strip()
parse_exts_nostrip(spec) ==
    IF spec = <<>> \/ spec \in AllWords THEN NoFilter
    ELSE LET parts == SeqToSet(parse_parts(spec))
         IN  << { <<".">> \o lower(lstrip_dot(q)) : q \in { x \in parts : Head(x) # "!" } },
                { <<".">> \o lower(lstrip_dot(Tail(q))) : q \in { x \in parts : Head(x) = "!" } } >>

\* parse_exts: NoFilter, or <<includes, excludes>>
parse_exts(spec) ==
    IF spec = <<>> \/ strip(spec) \in AllWords THEN NoFilter
    ELSE LET parts == SeqToSet(parse_parts(spec))
             inc == { <<".">> \o lower(lstrip_dot(q)) :
                        q \in { x \in parts : Head(x) # "!" } }
             exc == { <<".">> \o lower(lstrip_dot(Tail(q))) :
                        q \in { x \in parts : Head(x) = "!" } }
         IN  IF inc = {} /\ exc = {} THEN NoFilter ELSE <<inc, exc>>

\* mutant: an included extension passes before the exclusions are asked
Pro_should_convert_incfirst(ext_filter, rel_path) ==
    \/ ext_filter = NoFilter
    \/ LET ext == lower(Suffix(Last(rel_path)))
       IN  IF ext_filter[1] # {} THEN ext \in ext_filter[1]
           ELSE ext \notin ext_filter[2]

\* export_txt.should_convert
Pro_should_convert(ext_filter, rel_path) ==
    IF ext_filter = NoFilter THEN TRUE
    ELSE LET includes == ext_filter[1]
             excludes == ext_filter[2]
             ext == lower(Suffix(Last(rel_path)))
         IN  IF includes # {} /\ ext \notin includes THEN FALSE
             ELSE IF ext \in excludes THEN FALSE
             ELSE TRUE

(***************************************************************************)
(* The exporters.  An output file is a record: the lines of the index, the *)
(* items written after it, and the rows of a CSV file.  A path stands for   *)
(* the text str(path) gives.                                               *)
(***************************************************************************)
\* the content of a file that holds nothing yet
NoContent == [kind |-> "none", tree |-> <<>>, body |-> <<>>,
              header |-> <<>>, rows |-> <<>>]

\* sorted(nodo.items()): the place of a key; "__files__" sorts after the
\* names that start with "." and before those that start with a letter
KeyRank(k) == IF k = "__files__" THEN 3 ELSE 2 * NameRank(k)

RECURSIVE SortKeys(_)
SortKeys(S) ==
    IF S = {} THEN <<>>
    ELSE LET m == CHOOSE x \in S : \A y \in S : KeyRank(x) <= KeyRank(y)
         IN  <<m>> \o SortKeys(S \ {m})

\* the keys of the node of the index that stands for the directory dir
NodeKeys(arb, dir) ==
    { Last(d) : d \in { x \in DOMAIN arb : x # <<>> /\ Front(x) = dir } }
      \cup (IF arb[dir] # <<>> THEN {"__files__"} ELSE {})

\* _tree_txt and _draw_tree_pdf: the lines of the index, each with its indent
RECURSIVE tree_txt(_, _, _)
tree_txt(arb, dir, indent) ==
    LET keys == SortKeys(NodeKeys(arb, dir))
        lines(k) ==
            IF k = "__files__"
            THEN LET fs_ == SortKeys(SeqToSet(arb[dir]))
                 IN  [j \in 1..Len(fs_) |-> <<indent, "- ", fs_[j]>>]
            ELSE << <<indent, "[]/", k>> >> \o tree_txt(arb, Append(dir, k), indent + 4)
    IN  Flatten([j \in 1..Len(keys) |-> lines(keys[j])])

\* an item of the body of a text file
Heading(rel_path, conv) ==
    [type |-> "heading", path |-> rel_path, conv |-> conv, text |-> <<>>]

TextLine(rel_path, ln) ==
    [type |-> "line", path |-> rel_path, conv |-> TRUE, text |-> ln]

EndOfEntry(rel_path) ==
    [type |-> "end", path |-> rel_path, conv |-> TRUE, text |-> <<"\n">>]

\* "## {rel_path}\n", the lines, "\n"
EntryText(entry) ==
    <<Heading(entry[1], TRUE)>>
    \o [j \in 1..Len(entry[2]) |-> TextLine(entry[1], entry[2][j])]
    \o <<EndOfEntry(entry[1])>>

\* export_txt of the basic variant: what the file holds when it is closed
Basic_export_txt(arb, fls) ==
    [kind |-> "txt", tree |-> tree_txt(arb, <<>>, 0),
     body |-> Flatten([j \in 1..Len(fls) |-> EntryText(fls[j])]),
     header |-> <<>>, rows |-> <<>>]

\* str.rstrip("\n")
RECURSIVE rstrip_nl(_)
rstrip_nl(ln) ==
    IF ln # <<>> /\ Last(ln) = "\n" THEN rstrip_nl(Front(ln)) ELSE ln

\* mutant: line numbers count from 0
Basic_csv_rows_zero(entry) ==
    [j \in 1..Len(entry[2]) |-> <<entry[1], j - 1, rstrip_nl(entry[2][j])>>]

\* for i, ln in enumerate(lines, 1): writer.writerow([str(rel_path), i, ...])
Basic_csv_rows(entry) ==
    [j \in 1..Len(entry[2]) |-> <<entry[1], j, rstrip_nl(entry[2][j])>>]

\* export_csv: what the file holds when it is closed
Basic_export_csv(fls) ==
    [kind |-> "csv", tree |-> <<>>, body |-> <<>>,
     header |-> <<"path", "line_no", "content">>,
     rows |-> Flatten([j \in 1..Len(fls) |-> Basic_csv_rows(fls[j])])]

\* export_pdf with fpdf at hand: a page of index, then a page for each file
\* (every character of the files on disk is a Latin-1 character)
Basic_export_pdf(arb, fls) ==
    [kind |-> "pdf", tree |-> tree_txt(arb, <<>>, 0),
     body |-> Flatten([j \in 1..Len(fls) |->
                <<Heading(fls[j][1], TRUE)>>
                \o [k \in 1..Len(fls[j][2]) |-> TextLine(fls[j][1], fls[j][2][k])]]),
     header |-> <<>>, rows |-> <<>>]

\* mutant: the lines of a file the filter rejects are written all the same
Pro_entry_text_always(entry, ext_filter) == EntryText(entry)

\* the body of "for i, (rel_path, lines) in enumerate(files)", without progress
Pro_entry_text(entry, ext_filter) ==
    IF Pro_should_convert(ext_filter, entry[1]) THEN EntryText(entry)
    ELSE <<Heading(entry[1], FALSE)>>

\* mutant: the index lists nothing when a filter is given
Pro_export_txt_hidden(arb, fls, ext_filter) ==
    [kind |-> "txt",
     tree |-> IF ext_filter = NoFilter THEN tree_txt(arb, <<>>, 0) ELSE <<>>,
     body |-> Flatten([j \in 1..Len(fls) |-> Pro_entry_text(fls[j], ext_filter)]),
     header |-> <<>>, rows |-> <<>>]

\* export_txt of the pro variant: what the file holds when it is closed
Pro_export_txt(arb, fls, ext_filter) ==
    [kind |-> "txt", tree |-> tree_txt(arb, <<>>, 0),
     body |-> Flatten([j \in 1..Len(fls) |-> Pro_entry_text(fls[j], ext_filter)]),
     header |-> <<>>, rows |-> <<>>]

(***************************************************************************)
(* A conversion job: _run_conversion, the _convert thread and, in the pro  *)
(* variant, the queue between the thread and _process_log_queue            *)
(***************************************************************************)
\* how many _convert threads are alive at once in a run
MaxWorkers == 2

\* the directory the program was started in: Path("") resolves to it
Cwd == <<"r">>

\* Path(self.project_path.get()).expanduser().resolve()
BaseOf(path) == IF path = <<>> THEN Cwd ELSE resolve(path)

\* ("pdf", "txt", "csv")[format_var]
FmtOf(idx) == <<"pdf", "txt", "csv">>[idx + 1]

\* the output file: f"{name}.{fmt}" with the default name
OutputFile(fmt) == <<"listado", fmt>>

\* f"Archivo generado:\n{output_path}"
Generated(fmt) ==
    CASE fmt = "pdf" -> "Archivo generado: listado.pdf"
      [] fmt = "txt" -> "Archivo generado: listado.txt"
      [] OTHER -> "Archivo generado: listado.csv"

\* a message of log_queue: a text, ('progress', num/den),
\* ('final_message', type, text) or "END_PROCESS"
LogMsg(text) == [kind |-> "log", text |-> text, num |-> 0, den |-> 1]

ProgressMsg(num, den) == [kind |-> "progress", text |-> "", num |-> num, den |-> den]

FinalMsg(type, text) == [kind |-> type, text |-> text, num |-> 0, den |-> 1]

EndMsg == [kind |-> "END_PROCESS", text |-> "", num |-> 0, den |-> 1]

\* the message of a step that puts none
NoMsg == [kind |-> "none", text |-> "", num |-> 0, den |-> 1]

BoxTypes == {"showinfo", "showwarning", "showerror"}

\* what a thread does next
Step(op, msg, file, content) ==
    [op |-> op, msg |-> msg, file |-> file, content |-> content,
     arbol |-> <<>>, files |-> <<>>, sel |-> NoSelection]

Put(msg) == Step("put", msg, <<>>, NoContent)

ScanDone(res, sel) ==
    [op |-> "scan", msg |-> NoMsg, file |-> <<>>, content |-> NoContent,
     arbol |-> res.arbol, files |-> res.files, sel |-> sel]

\* max(1, total)
Max1(total) == IF total > 1 THEN total ELSE 1

\* scan_project: ('progress', (i / max(1, total)) * 20) when i % 100 == 0
Pro_scan_progress(total) ==
    LET at == SelectSeq([i \in 1..total |-> i - 1], LAMBDA i : i % 100 = 0)
    IN  [j \in 1..Len(at) |-> Put(ProgressMsg(20 * at[j], Max1(total)))]

\* mutant: the progress of the export starts again from 0
Pro_export_progress_nobase(total) ==
    LET at == SelectSeq([i \in 1..total |-> i - 1], LAMBDA i : i % 50 = 0)
    IN  [j \in 1..Len(at) |-> Put(ProgressMsg(80 * at[j], Max1(total)))]

\* export_txt: ('progress', 20 + (i / max(1, total)) * 80) when i % 50 == 0
Pro_export_progress(total) ==
    LET at == SelectSeq([i \in 1..total |-> i - 1], LAMBDA i : i % 50 = 0)
    IN  [j \in 1..Len(at) |->
            Put(ProgressMsg(20 * Max1(total) + 80 * at[j], Max1(total)))]

\* "finally: self.log_queue.put('END_PROCESS')"
\* mutant: no finally clause
Pro_finally_none == <<>>

Pro_finally == <<Put(EndMsg)>>

\* "except Exception as exc"
Pro_except(exc) == <<Put(FinalMsg("showerror", exc))>>

\* export_txt: the messages, the file opened and the file closed
Pro_export_steps(file, arb, fls, ext_filter, can_write) ==
    <<Put(LogMsg("-> Generando archivo TXT..."))>>
    \o (IF ~can_write THEN Pro_except("PermissionError")
        ELSE <<Step("write", NoMsg, file, [NoContent EXCEPT !.kind = "txt"])>>
             \o Pro_export_progress(Len(fls))
             \o <<Step("write", NoMsg, file, Pro_export_txt(arb, fls, ext_filter)),
                  Put(LogMsg("-> Archivo TXT generado."))>>)

\* the end of the try block, reached when export_txt has returned
\* mutant: END_PROCESS is put before the messages of the success
Pro_success_steps_endfirst(fmt) ==
    << Put(EndMsg), Put(ProgressMsg(100, 1)), Put(LogMsg("----")),
       Put(LogMsg("Exito")), Put(FinalMsg("showinfo", Generated(fmt))) >>

Pro_success_steps(fmt) ==
    << Put(ProgressMsg(100, 1)), Put(LogMsg("----")),
       Put(LogMsg("Exito")), Put(FinalMsg("showinfo", Generated(fmt))) >>

\* mutant: no return after the warning
Pro_after_scan_noreturn(fmt, res, spec, can_write) ==
    (IF res.files = <<>>
     THEN <<Put(FinalMsg("showwarning", "No se encontraron archivos"))>>
     ELSE <<>>)
    \o Pro_export_steps(OutputFile("txt"), res.arbol, res.files, parse_exts(spec), can_write)
    \o (IF can_write THEN Pro_success_steps(fmt) ELSE <<>>)

\* _convert from "if not files" to the end of the try block
Pro_after_scan(fmt, res, spec, can_write) ==
    IF res.files = <<>>
    THEN <<Put(FinalMsg("showwarning", "No se encontraron archivos"))>>
    ELSE (IF fmt = "txt" THEN <<>>
          ELSE <<Put(LogMsg("AVISO: no implementada")),
                 Put(LogMsg("-> Generando un archivo TXT de respaldo."))>>)
         \o Pro_export_steps(OutputFile("txt"), res.arbol, res.files,
                             parse_exts(spec), can_write)
         \o (IF can_write THEN Pro_success_steps(fmt) ELSE <<>>)

\* _convert of the pro variant, for a directory that holds total files of
\* which scan_project keeps those of res
Pro_convert_steps(fmt, total, res, sel, spec, can_write) ==
    << Step("setpath", NoMsg, OutputFile(fmt), NoContent),
       Put(LogMsg("Carpeta de origen")), Put(LogMsg("Archivo de salida")),
       Put(LogMsg("-> Iniciando escaneo de directorios...")) >>
    \o Pro_scan_progress(total)
    \o << ScanDone(res, sel), Put(LogMsg("-> Escaneo finalizado.")) >>
    \o Pro_after_scan(fmt, res, spec, can_write)
    \o Pro_finally

\* self.selected_paths or None
SelArg(sel) == IF sel = {} THEN NoSelection ELSE <<sel>>

\* the thread _run_conversion starts
Pro_convert ==
    LET base == BaseOf(project_path)
    IN  Pro_convert_steps(FmtOf(format_var),
                          Len(SelectSeq(rglob(base), is_file)),
                          Pro_scan_project(base, SelArg(selected_paths)),
                          SelArg(selected_paths), exts_var, writable)

\* how many jobs a run starts
MaxJobs == 2

\* what a job works on: the folder, the selection, the extension filter and
\* the format, as the main window holds them
Inputs == [path |-> project_path, sel |-> selected_paths,
           exts |-> exts_var, fmt |-> format_var]

\* a message box that was shown
Box(type, text) == [type |-> type, text |-> text]

\* what _convert of the basic variant leaves behind
BasicDone(ran, res, sel, out, box) ==
    [scanned |-> ran, arbol |-> res.arbol, files |-> res.files, sel |-> sel,
     outputs |-> out, outcomes |-> <<box>>]

NoScan == [arbol |-> <<>>, files |-> <<>>]

\* the try block of _convert after scan_project: the exporter and its end
Basic_export(fmt, res, has_fpdf, can_write) ==
    IF fmt = "pdf" /\ ~has_fpdf
    THEN [out |-> <<>>, box |-> Box("showerror", "Instala primero fpdf2")]
    ELSE IF ~can_write
    THEN [out |-> <<>>, box |-> Box("showerror", "PermissionError")]
    ELSE [out |-> (OutputFile(fmt) :>
                     CASE fmt = "pdf" -> Basic_export_pdf(res.arbol, res.files)
                       [] fmt = "txt" -> Basic_export_txt(res.arbol, res.files)
                       [] OTHER -> Basic_export_csv(res.files)),
          box |-> Box("showinfo", Generated(fmt))]

\* mutant: the directory is not looked at before the scan
Basic_convert_nocheck(path, fmt, sel, has_fpdf, can_write) ==
    LET base == BaseOf(path)
        res == Basic_scan_project(base, SelArg(sel))
        e == Basic_export(fmt, res, has_fpdf, can_write)
    IN  BasicDone(TRUE, res, SelArg(sel), e.out, e.box)

\* _convert of the basic variant
Basic_convert_result(path, fmt, sel, has_fpdf, can_write) ==
    LET base == BaseOf(path)
    IN  IF ~is_dir(base)
        THEN BasicDone(FALSE, NoScan, NoSelection, <<>>,
                       Box("showerror", "Debes seleccionar una carpeta valida"))
        ELSE LET res == Basic_scan_project(base, SelArg(sel))
                 e == Basic_export(fmt, res, has_fpdf, can_write)
             IN  BasicDone(TRUE, res, SelArg(sel), e.out, e.box)

\* mutant: the controls come back with the final message
Pro_handle_msg_early(msg, bar, boxes, enabled) ==
    [bar |-> IF msg.kind = "progress" THEN <<msg.num, msg.den>> ELSE bar,
     boxes |-> IF msg.kind \in BoxTypes THEN Append(boxes, Box(msg.kind, msg.text))
               ELSE boxes,
     enabled |-> enabled \/ msg.kind \in BoxTypes \/ msg.kind = "END_PROCESS"]

\* the body of the loop of _process_log_queue for one message
Pro_handle_msg(msg, bar, boxes, enabled) ==
    [bar |-> IF msg.kind = "progress" THEN <<msg.num, msg.den>> ELSE bar,
     boxes |-> IF msg.kind \in BoxTypes THEN Append(boxes, Box(msg.kind, msg.text))
               ELSE boxes,
     enabled |-> IF msg.kind = "END_PROCESS" THEN TRUE ELSE enabled]

\* the threads but the i-th, which has done the first of its steps
AfterStep(i) ==
    IF Len(workers[i]) = 1
    THEN [j \in 1..(Len(workers) - 1) |-> IF j < i THEN workers[j] ELSE workers[j + 1]]
    ELSE [workers EXCEPT ![i] = Tail(@)]

(***************************************************************************)
(* Inputs                                                                  *)
(***************************************************************************)
\* texts typed into a name filter: "", "b", " Git ", "a.", "z"
FilterInputs ==
    { <<>>, <<"b">>, <<" ","G","i","t"," ">>, <<"a",".">>, <<"z">> }

\* texts typed into the pro name filter: "", "B"
NameInputs == { <<>>, <<"B">> }

\* texts typed into the pro extension filter: "", ".TXT"
ExtInputs == { <<>>, <<".","T","X","T">> }

IsLeaf(iid) == ~is_dir(iid)

\* result: <<>> is None, <<S>> is the set S
NoResult == <<>>

ClickHistory(iid) ==
    /\ touched' = TRUE
    /\ lastClick' = <<iid, checked[iid]>>
    /\ twice' = IF IsLeaf(iid) /\ lastClick # <<>> /\ lastClick[1] = iid
                THEN <<iid, lastClick[2]>> ELSE <<>>
    /\ inverted' = <<>> /\ crashed' = crashed

BulkHistory == touched' = TRUE /\ lastClick' = <<>> /\ twice' = <<>> /\ inverted' = <<>> /\ crashed' = crashed

OtherHistory == touched' = touched /\ lastClick' = <<>> /\ twice' = <<>> /\ inverted' = <<>> /\ crashed' = crashed

(***************************************************************************)
(* Actions of the basic variant                                            *)
(***************************************************************************)
\* ConvertidorGUI._open_selector up to wait_window: CheckTreeDialog.__init__
Basic_open_selector ==
    /\ variant = "basic" /\ ~dlgOpen /\ is_dir(Base)
    /\ dialogs < MaxDialogs /\ dialogs' = dialogs + 1
    /\ LET t == Basic_populate_tree(Base, selected_paths)
       IN  /\ checked' = t.checked /\ kids' = t.kids
           \* an exception out of __init__ ends _open_selector before wait_window
           /\ crashed' = t.raised /\ dlgOpen' = (t.raised = "")
    /\ preselected' = selected_paths
    /\ result' = NoResult /\ var_filter' = <<>>
    /\ touched' = FALSE /\ lastClick' = <<>> /\ twice' = <<>> /\ inverted' = <<>>
    /\ UNCHANGED <<variant, fs, selected_paths, item_paths, placeholder,
                   filter_job, scanVars, filterVars, jobVars>>

\* _on_click on a row of the tree
Basic_on_click(iid) ==
    /\ variant = "basic" /\ dlgOpen /\ iid \in Displayed(kids)
    /\ checked' = Basic_toggle_item(checked, kids, iid, None)
    /\ ClickHistory(iid)
    /\ UNCHANGED <<openVars, selected_paths, dlgOpen, kids,
                   item_paths, placeholder, var_filter, filter_job, result, scanVars, filterVars, jobVars>>

Basic_bulk(st) ==
    /\ variant = "basic" /\ dlgOpen
    /\ checked' = Basic_toggle_each(checked, kids, Basic_iter_all_items(kids), st)
    /\ BulkHistory
    /\ UNCHANGED <<openVars, selected_paths, dlgOpen, kids,
                   item_paths, placeholder, var_filter, filter_job, result, scanVars, filterVars, jobVars>>

Basic_check_all == Basic_bulk("checked")

Basic_uncheck_all == Basic_bulk("unchecked")

\* tree.index(iid) raises for none of the items _iter_all_items yields
Basic_check_visible == Basic_bulk("checked")

Basic_uncheck_visible == Basic_bulk("unchecked")

\* <KeyRelease> in the filter entry
Basic_filter(text) ==
    /\ variant = "basic" /\ dlgOpen
    /\ var_filter' = text
    /\ kids' = Basic_filter_tree(kids, text)
    /\ OtherHistory
    /\ UNCHANGED <<openVars, selected_paths, dlgOpen, checked,
                   item_paths, placeholder, filter_job, result, scanVars, filterVars, jobVars>>

\* _accept, then the rest of _open_selector; yes is the askyesno answer
Basic_accept(yes) ==
    /\ variant = "basic" /\ dlgOpen
    /\ LET sel == Basic_gather_checked_paths(checked)
       IN  IF sel = {} /\ ~yes
           THEN UNCHANGED <<selected_paths, dlgOpen, result>>
           ELSE result' = <<sel>> /\ dlgOpen' = FALSE /\ selected_paths' = sel
    /\ OtherHistory
    /\ UNCHANGED <<openVars, checked, kids, item_paths, placeholder,
                   var_filter, filter_job, scanVars, filterVars, jobVars>>

Basic_cancel ==
    /\ variant = "basic" /\ dlgOpen
    /\ result' = NoResult /\ dlgOpen' = FALSE
    /\ OtherHistory
    /\ UNCHANGED <<openVars, selected_paths, checked, kids,
                   item_paths, placeholder, var_filter, filter_job, scanVars, filterVars, jobVars>>

\* ConvertidorGUI._select_folder with the folder path chosen
Basic_select_folder_to(path) ==
    /\ variant = "basic" /\ ~dlgOpen
    /\ project_path' = path
    /\ selected_paths' = {}
    /\ UNCHANGED <<variant, fs, dlgVars, scanVars, filterVars,
                   format_var, fpdf, writable, workers, log_queue, controls,
                   progress_bar, last_output_path, btn_open_output, outputs, sent, outcomes, job>>

\* the folder chosen is the one the window holds already
Basic_select_folder == Basic_select_folder_to(project_path)

(***************************************************************************)
(* Actions of the pro variant                                              *)
(***************************************************************************)
DlgState == [checked |-> checked, kids |-> kids, item_paths |-> item_paths,
             placeholder |-> placeholder]

SetDlg(d) ==
    /\ checked' = d.checked /\ kids' = d.kids
    /\ item_paths' = d.item_paths /\ placeholder' = d.placeholder

Pro_open_selector ==
    /\ variant = "pro" /\ ~dlgOpen /\ is_dir(Base)
    /\ dialogs < MaxDialogs /\ dialogs' = dialogs + 1
    /\ SetDlg(Pro_populate_tree(Base, selected_paths, <<<<>>, <<>>>>))
    /\ preselected' = selected_paths
    /\ dlgOpen' = TRUE /\ result' = NoResult
    /\ var_filter' = <<<<>>, <<>>>> /\ filter_job' = FALSE
    /\ touched' = FALSE /\ lastClick' = <<>> /\ twice' = <<>> /\ inverted' = <<>>
    /\ crashed' = ""
    /\ UNCHANGED <<variant, fs, selected_paths, scanVars, filterVars, jobVars>>

Pro_on_click(iid) ==
    /\ variant = "pro" /\ dlgOpen /\ iid \in Displayed(kids)
    /\ checked' = Pro_toggle_item(checked, kids, iid, None, TRUE)
    /\ ClickHistory(iid)
    /\ UNCHANGED <<openVars, selected_paths, dlgOpen, kids,
                   item_paths, placeholder, var_filter, filter_job, result, scanVars, filterVars, jobVars>>

\* _on_tree_open for the selected row, which still holds its placeholder
Pro_on_tree_open(iid) ==
    /\ variant = "pro" /\ dlgOpen /\ iid \in placeholder
    /\ SetDlg(Pro_load_children(DlgState, iid, preselected, var_filter))
    /\ OtherHistory
    /\ UNCHANGED <<openVars, selected_paths, dlgOpen,
                   var_filter, filter_job, result, scanVars, filterVars, jobVars>>

Pro_bulk(chk) ==
    /\ variant = "pro" /\ dlgOpen
    /\ checked' = chk
    /\ BulkHistory
    /\ UNCHANGED <<openVars, selected_paths, dlgOpen, kids,
                   item_paths, placeholder, var_filter, filter_job, result, scanVars, filterVars, jobVars>>

Pro_select_all == Pro_bulk(Pro_select_all_op(checked, kids, item_paths))

Pro_deselect_all == Pro_bulk(Pro_deselect_all_op(checked, kids, item_paths))

Pro_invert_selection ==
    /\ variant = "pro" /\ dlgOpen
    /\ checked' = Pro_invert_selection_op(checked, kids, item_paths)
    /\ touched' = TRUE /\ lastClick' = <<>> /\ twice' = <<>>
    /\ inverted' = <<checked>> /\ crashed' = crashed
    /\ UNCHANGED <<openVars, selected_paths, dlgOpen, kids,
                   item_paths, placeholder, var_filter, filter_job, result, scanVars, filterVars, jobVars>>

\* a write of filter_name_var or filter_ext_var: _schedule_filter
Pro_schedule_filter(name, ext) ==
    /\ variant = "pro" /\ dlgOpen
    /\ (name = var_filter[1]) # (ext = var_filter[2])
    /\ var_filter' = <<name, ext>>
    /\ filter_job' = TRUE
    /\ OtherHistory
    /\ UNCHANGED <<openVars, selected_paths, dlgOpen, checked, kids,
                   item_paths, placeholder, result, scanVars, filterVars, jobVars>>

\* the after(250) callback: _populate_tree
Pro_filter_fires ==
    /\ variant = "pro" /\ dlgOpen /\ filter_job
    /\ SetDlg(Pro_populate_tree(Base, preselected, var_filter))
    /\ filter_job' = FALSE
    /\ OtherHistory
    /\ UNCHANGED <<openVars, selected_paths, dlgOpen,
                   var_filter, result, scanVars, filterVars, jobVars>>

Pro_accept(yes) ==
    /\ variant = "pro" /\ dlgOpen
    /\ LET res == Pro_accept_result(checked, item_paths)
       IN  /\ result' = <<res>>
           /\ IF res = {} /\ ~yes
              THEN UNCHANGED <<selected_paths, dlgOpen>>
              ELSE dlgOpen' = FALSE /\ selected_paths' = res
    /\ OtherHistory
    /\ UNCHANGED <<openVars, checked, kids, item_paths, placeholder,
                   var_filter, filter_job, scanVars, filterVars, jobVars>>

Pro_cancel ==
    /\ variant = "pro" /\ dlgOpen
    /\ result' = NoResult /\ dlgOpen' = FALSE
    /\ OtherHistory
    /\ UNCHANGED <<openVars, selected_paths, checked, kids,
                   item_paths, placeholder, var_filter, filter_job, scanVars, filterVars, jobVars>>

\* btn_browse, which is enabled: _select_folder with the folder path chosen
Pro_select_folder_to(path) ==
    /\ variant = "pro" /\ ~dlgOpen /\ controls
    /\ project_path' = path
    /\ selected_paths' = {}
    /\ UNCHANGED <<variant, fs, dlgVars, scanVars, filterVars,
                   format_var, fpdf, writable, workers, log_queue, controls,
                   progress_bar, last_output_path, btn_open_output, outputs, sent, outcomes, job>>

Pro_select_folder == Pro_select_folder_to(project_path)

\* nothing has been typed into the extension filter
FilterIdle == exts_var = <<"*">> /\ probe = <<>> /\ matchRes = <<>>

\* ConvertidorGUI.__init__: no job has been started
JobIdle ==
    /\ project_path = <<>> /\ format_var = 1
    /\ fpdf = TRUE /\ writable = TRUE
    /\ workers = <<>> /\ log_queue = <<>> /\ controls = TRUE
    /\ progress_bar = <<0, 1>> /\ last_output_path = <<>> /\ btn_open_output = FALSE
    /\ outputs = <<>> /\ sent = <<>> /\ outcomes = <<>>
    /\ job = [start |-> Inputs, held |-> Inputs, n |-> 0]

(***************************************************************************)
(* The selection dialogs: specification                                    *)
(***************************************************************************)
AllItems == RealDirs \cup RealFiles

InitTree ==
    /\ variant \in {"basic", "pro"}
    /\ fs = "plain"
    /\ selected_paths = {}
    /\ dlgOpen = FALSE /\ preselected = {}
    /\ checked = <<>> /\ kids = (Top :> <<>>)
    /\ item_paths = <<>> /\ placeholder = {}
    /\ var_filter = <<>> /\ filter_job = FALSE
    /\ result = NoResult /\ dialogs = 0
    /\ touched = FALSE /\ lastClick = <<>> /\ twice = <<>> /\ inverted = <<>> /\ crashed = ""
    /\ scanSel = {} /\ listRev = FALSE /\ scanned = FALSE
    /\ arbol = <<>> /\ files = <<>>
    /\ FilterIdle /\ JobIdle

NextBasic ==
    \/ Basic_open_selector
    \/ \E iid \in AllItems : Basic_on_click(iid)
    \/ Basic_check_all
    \/ Basic_uncheck_all
    \/ Basic_check_visible
    \/ Basic_uncheck_visible
    \/ \E text \in FilterInputs : Basic_filter(text)
    \/ \E yes \in BOOLEAN : Basic_accept(yes)
    \/ Basic_cancel
    \/ Basic_select_folder

NextPro ==
    \/ Pro_open_selector
    \/ \E iid \in AllItems : Pro_on_click(iid)
    \/ \E iid \in AllItems : Pro_on_tree_open(iid)
    \/ Pro_select_all
    \/ Pro_deselect_all
    \/ Pro_invert_selection
    \/ \E name \in NameInputs, ext \in ExtInputs : Pro_schedule_filter(name, ext)
    \/ Pro_filter_fires
    \/ \E yes \in BOOLEAN : Pro_accept(yes)
    \/ Pro_cancel
    \/ Pro_select_folder

NextTree == NextBasic \/ NextPro

\* the basic dialog alone
InitBasic == InitTree /\ variant = "basic"

SpecBasicDlg == InitBasic /\ [][NextBasic]_vars

\* the pro dialog alone
InitPro == InitTree /\ variant = "pro"

SpecProDlg == InitPro /\ [][NextPro]_vars

\* either dialog
SpecTree == InitTree /\ [][NextTree]_vars

\* _convert after a dialog was accepted: scan_project(base,
\* self.selected_paths or None)
Basic_scan_selected ==
    /\ variant = "basic" /\ ~dlgOpen /\ ~scanned /\ result # NoResult
    /\ scanSel' = SelArg(selected_paths)
    /\ LET r == Basic_scan_project(resolve(Base), SelArg(selected_paths))
       IN  arbol' = r.arbol /\ files' = r.files
    /\ scanned' = TRUE
    /\ UNCHANGED <<variant, fs, selected_paths, dlgVars, listRev, filterVars, jobVars>>

Pro_scan_selected ==
    /\ variant = "pro" /\ ~dlgOpen /\ ~scanned /\ result # NoResult
    /\ scanSel' = SelArg(selected_paths)
    /\ LET r == Pro_scan_project(resolve(Base), SelArg(selected_paths))
       IN  arbol' = r.arbol /\ files' = r.files
    /\ scanned' = TRUE
    /\ UNCHANGED <<variant, fs, selected_paths, dlgVars, listRev, filterVars, jobVars>>

\* a dialog, then the scan of what it returned
NextDlgScan ==
    \/ Basic_open_selector
    \/ \E iid \in AllItems : Basic_on_click(iid)
    \/ \E text \in FilterInputs : Basic_filter(text)
    \/ \E yes \in BOOLEAN : Basic_accept(yes)
    \/ Basic_scan_selected
    \/ Pro_open_selector
    \/ \E iid \in AllItems : Pro_on_click(iid)
    \/ \E iid \in AllItems : Pro_on_tree_open(iid)
    \/ \E name \in NameInputs, ext \in ExtInputs : Pro_schedule_filter(name, ext)
    \/ Pro_filter_fires
    \/ \E yes \in BOOLEAN : Pro_accept(yes)
    \/ Pro_scan_selected

SpecDlgScan == InitTree /\ [][NextDlgScan]_vars

\* the directory sub stops being listable (e = "noperm") or is deleted
\* (e = "vanished") after its parent was listed and before it is listed
DiskErrors == {"noperm", "vanished"}

Disk_fails(e) ==
    /\ fs = "plain" /\ fs' = e
    /\ ~dlgOpen \/ <<"r","sub">> \in placeholder
    /\ UNCHANGED <<variant, selected_paths, dlgVars, scanVars, filterVars, jobVars>>

\* either dialog on a directory whose enumeration fails
NextDlgErr ==
    \/ Basic_open_selector
    \/ \E iid \in AllItems : Basic_on_click(iid)
    \/ \E yes \in BOOLEAN : Basic_accept(yes)
    \/ Basic_cancel
    \/ Pro_open_selector
    \/ \E iid \in AllItems : Pro_on_click(iid)
    \/ \E iid \in AllItems : Pro_on_tree_open(iid)
    \/ \E yes \in BOOLEAN : Pro_accept(yes)
    \/ Pro_cancel
    \/ \E e \in DiskErrors : Disk_fails(e)

SpecDlgErr == InitTree /\ [][NextDlgErr]_vars

(***************************************************************************)
(* Properties of the selection dialogs                                     *)
(***************************************************************************)
\* the nodes of the dialog's tree and their children, hidden ones included
Nodes == DOMAIN checked

ChildrenOf(d) == { c \in Nodes : Len(c) = Len(d) + 1 /\ Front(c) = d }

TriState(d) ==
    LET st == { checked[c] : c \in ChildrenOf(d) }
    IN  /\ checked[d] = "checked" <=> st = {"checked"}
        /\ checked[d] = "unchecked" <=> st = {"unchecked"}
        /\ checked[d] = "partial" <=> Cardinality(st) > 1

\* C1: in the basic dialog every directory that has children is checked iff
\* all its children are checked, unchecked iff all are unchecked and partial
\* otherwise, and a file is only ever checked or unchecked.
C1_BasicTriState ==
    (variant = "basic" /\ dlgOpen) =>
        \A n \in Nodes :
            IF is_dir(n) THEN ChildrenOf(n) # {} => TriState(n)
            ELSE checked[n] \in {"checked", "unchecked"}

C3_ToggleTwice ==
    twice # <<>> => checked[twice[1]] = twice[2]

C3_Witness ==
    /\ twice # <<>> /\ variant = "basic"
    /\ \E n \in Nodes : checked[n] = "partial"

\* C4: the set an accepted dialog returns is exactly the set of the paths of
\* the nodes that are checked, hidden nodes included: no partial or
\* unchecked node is in it and no checked node is missing.
C4_SnapshotExact ==
    (~dlgOpen /\ result # NoResult) =>
        /\ \A n \in Nodes : checked[n] = "checked" => n \in result[1]
        /\ \A q \in result[1] : q \in Nodes /\ checked[q] = "checked"

C4_Witness ==
    /\ ~dlgOpen /\ result # NoResult /\ variant = "basic"
    /\ \E n \in result[1] : n \notin Displayed(kids)
    /\ \E n \in Nodes : checked[n] = "partial"

\* the set _accept would return now
Snapshot ==
    IF variant = "basic" THEN Basic_gather_checked_paths(checked)
    ELSE Pro_accept_result(checked, item_paths)

\* C5: a dialog opened with no pre-selection has no checked node, and its
\* snapshot is empty, until the first toggle or bulk operation.
C5_FreshTreeEmpty ==
    (dlgOpen /\ preselected = {} /\ ~touched) =>
        /\ \A n \in Nodes : checked[n] # "checked"
        /\ Snapshot = {}

C5_Witness ==
    /\ dlgOpen /\ preselected = {} /\ ~touched
    /\ variant = "pro" /\ Len(item_paths) > 3

(***************************************************************************)
(* The scanners: specification.  scan_project is applied to a selection    *)
(* drawn from the sets of paths of the directory.                          *)
(***************************************************************************)
InitScan ==
    /\ variant \in {"basic", "pro"}
    /\ fs \in {"plain", "links", "noread"}
    /\ listRev \in BOOLEAN
    /\ scanSel \in {NoSelection} \cup { <<S>> : S \in SUBSET Entries }
    /\ scanned = FALSE /\ arbol = <<>> /\ files = <<>>
    /\ selected_paths = {}
    /\ dlgOpen = FALSE /\ preselected = {}
    /\ checked = <<>> /\ kids = (Top :> <<>>)
    /\ item_paths = <<>> /\ placeholder = {}
    /\ var_filter = <<>> /\ filter_job = FALSE
    /\ result = NoResult /\ dialogs = 0
    /\ touched = FALSE /\ lastClick = <<>> /\ twice = <<>> /\ inverted = <<>> /\ crashed = ""
    /\ FilterIdle /\ JobIdle

Basic_scan ==
    /\ variant = "basic" /\ ~scanned
    /\ LET r == Basic_scan_project(resolve(Base), scanSel)
       IN  arbol' = r.arbol /\ files' = r.files
    /\ scanned' = TRUE
    /\ UNCHANGED <<variant, fs, selected_paths, dlgVars, scanSel, listRev,
                   filterVars, jobVars>>

Pro_scan ==
    /\ variant = "pro" /\ ~scanned
    /\ LET r == Pro_scan_project(resolve(Base), scanSel)
       IN  arbol' = r.arbol /\ files' = r.files
    /\ scanned' = TRUE
    /\ UNCHANGED <<variant, fs, selected_paths, dlgVars, scanSel, listRev,
                   filterVars, jobVars>>

NextScan == Basic_scan \/ Pro_scan

SpecScan == InitScan /\ [][NextScan]_vars

(***************************************************************************)
(* Properties of the scanners                                              *)
(***************************************************************************)
\* the files below the base directory
FilesOnDisk == { e \in Entries : is_file(e) }

RelFilesOnDisk == { relative_to(e, Base) : e \in FilesOnDisk }

\* the files the index tree lists, as paths relative to the base
IndexFiles ==
    UNION { { Append(d, arbol[d][k]) : k \in 1..Len(arbol[d]) } : d \in DOMAIN arbol }

\* the files that have a content entry
ContentFiles == { files[i][1] : i \in 1..Len(files) }

\* the selection restricts the scan
Restricted == ~Falsy(scanSel)

\* the canonical form of the selection
CanonSel == IF Restricted THEN { resolve(q) : q \in scanSel[1] } ELSE {}

\* the file itself, or a directory above it, is a member of the selection
Selects(f) ==
    \/ resolve(f) \in CanonSel
    \/ \E k \in 0..(Len(resolve(f)) - 1) : SubSeq(resolve(f), 1, k) \in CanonSel

SelectedRel == { relative_to(f, Base) : f \in { g \in FilesOnDisk : Selects(g) } }

\* scan_project of the variant at hand
ScanProject(selected) ==
    IF variant = "basic" THEN Basic_scan_project(resolve(Base), selected)
    ELSE Pro_scan_project(resolve(Base), selected)

\* file_is_allowed of the variant at hand, called as scan_project calls it
FileIsAllowed(f) ==
    IF variant = "basic" THEN Basic_file_is_allowed(f, scanSel, resolve(Base))
    ELSE Pro_file_is_allowed(f, Pro_selected_resolved(scanSel))

\* C6: a scan with a null or an empty selection lists every file under the
\* base directory in the index and gives each one content entry, and its
\* result is the result of the scan with every file selected.
C6_NoSelectionScansAll ==
    (scanned /\ ~Restricted) =>
        /\ IndexFiles = RelFilesOnDisk
        /\ ContentFiles = RelFilesOnDisk
        /\ Len(files) = Cardinality(RelFilesOnDisk)
        /\ [arbol |-> arbol, files |-> files] = ScanProject(<<FilesOnDisk>>)

C6_Witness ==
    /\ scanned /\ scanSel = <<{}>> /\ fs = "links"
    /\ Len(files) = 4 /\ <<"sub", ".git", "config">> \in IndexFiles

\* C7: for a non-empty selection, file_is_allowed is true of a file iff the
\* canonical path of the file, or of a directory above it, is the canonical
\* path of a member of the selection.
C7_AllowedIffSelected ==
    Restricted => \A f \in FilesOnDisk : FileIsAllowed(f) <=> Selects(f)

C7_Witness ==
    /\ scanned /\ scanSel = << {LinkDir, <<"r", "sub", ".git", "config">>} >>
    /\ ContentFiles = { <<"lnk.txt">>, <<"sub", "b.txt">>, <<"sub", ".git", "config">> }

\* C8: with a non-empty selection the files in the index are the selected
\* files under the base directory, and so are the files with content: a file
\* that is not selected is in neither.
C8_IndexIsSelection ==
    (scanned /\ Restricted) =>
        /\ IndexFiles = SelectedRel
        /\ ContentFiles = SelectedRel

C8_Witness ==
    /\ scanned /\ scanSel = << {<<"r", "sub">>} >>
    /\ <<"a.txt">> \notin IndexFiles \cup ContentFiles
    /\ <<"sub", "b.txt">> \in IndexFiles \cap ContentFiles

\* the ignore patterns of the specification's example
IgnorePatterns == {".git"}

\* a name of the path matches an ignore pattern
Ignored(rel) == \E k \in 1..Len(rel) : rel[k] \in IgnorePatterns

Basic_run_conversion ==
    /\ variant = "basic" /\ Len(workers) < MaxWorkers /\ job.n < MaxJobs
    /\ workers' = Append(workers, <<Step("convert", NoMsg, <<>>, NoContent)>>)
    /\ job' = [start |-> Inputs, held |-> Inputs, n |-> job.n + 1]
    /\ UNCHANGED <<variant, fs, selected_paths, dlgVars, scanVars, filterVars,
                   project_path, format_var, fpdf, writable, log_queue, controls,
                   progress_bar, last_output_path, btn_open_output, outputs, sent, outcomes>>

\* a _convert thread of the basic variant runs
Basic_convert(i) ==
    /\ variant = "basic" /\ i \in 1..Len(workers)
    /\ LET d == Basic_convert_result(project_path, FmtOf(format_var),
                                     selected_paths, fpdf, writable)
       IN  /\ scanned' = d.scanned /\ arbol' = d.arbol /\ files' = d.files
           /\ scanSel' = d.sel
           /\ outputs' = d.outputs /\ outcomes' = d.outcomes
    \* the thread reads the variables of the window when it runs
    /\ job' = [job EXCEPT !.held = Inputs]
    /\ workers' = AfterStep(i)
    /\ UNCHANGED <<variant, fs, selected_paths, dlgVars, listRev, filterVars,
                   project_path, format_var, fpdf, writable, log_queue, controls,
                   progress_bar, last_output_path, btn_open_output, sent>>

\* the button "Convertir" of the pro variant, which is enabled
Pro_run_conversion ==
    /\ variant = "pro" /\ controls /\ Len(workers) < MaxWorkers /\ job.n < MaxJobs
    /\ IF project_path = <<>>
       THEN /\ outcomes' = <<Box("showerror", "Debes seleccionar una carpeta de proyecto.")>>
            /\ UNCHANGED <<workers, controls, progress_bar, last_output_path, btn_open_output, job>>
       ELSE /\ outcomes' = <<>>
            /\ job' = [start |-> Inputs, held |-> Inputs, n |-> job.n + 1]
            /\ controls' = FALSE
            /\ progress_bar' = <<0, 1>>
            /\ last_output_path' = <<>> /\ btn_open_output' = FALSE
            /\ workers' = Append(workers, Pro_convert)
    /\ sent' = <<>> /\ outputs' = <<>>
    /\ scanned' = FALSE /\ arbol' = <<>> /\ files' = <<>>
    /\ UNCHANGED <<variant, fs, selected_paths, dlgVars, scanSel, listRev,
                   filterVars, project_path, format_var, fpdf, writable, log_queue>>

\* a _convert thread of the pro variant does its next step
Pro_convert_step(i) ==
    /\ variant = "pro" /\ i \in 1..Len(workers)
    /\ LET st == Head(workers[i])
       IN  /\ IF st.op = "put"
              THEN log_queue' = Append(log_queue, st.msg) /\ sent' = Append(sent, st.msg)
              ELSE UNCHANGED <<log_queue, sent>>
           /\ outputs' = IF st.op = "write" THEN (st.file :> st.content) @@ outputs
                         ELSE outputs
           /\ last_output_path' = IF st.op = "setpath" THEN st.file ELSE last_output_path
           /\ IF st.op = "scan"
              THEN /\ arbol' = st.arbol /\ files' = st.files
                   /\ scanSel' = st.sel /\ scanned' = TRUE
              ELSE UNCHANGED <<arbol, files, scanSel, scanned>>
           \* project_path and format_var are read on entry, selected_paths
           \* for the call of scan_project and exts_var after it has returned:
           \* what was typed since "Convertir" is what the thread goes on with
           /\ job' = CASE st.op = "setpath" ->
                            [job EXCEPT !.held.path = project_path,
                                        !.held.fmt = format_var]
                        [] st.op = "scan" ->
                            [job EXCEPT !.held.sel = selected_paths,
                                        !.held.exts = exts_var]
                        [] OTHER -> job
           /\ workers' =
                 CASE st.op = "setpath" /\ Inputs # job.start ->
                        [workers EXCEPT ![i] = Tail(Pro_convert)]
                   [] st.op = "scan" /\ exts_var # job.start.exts ->
                        [workers EXCEPT ![i] =
                            Pro_after_scan(FmtOf(job.held.fmt),
                                           [arbol |-> st.arbol, files |-> st.files],
                                           exts_var, writable) \o Pro_finally]
                   [] OTHER -> AfterStep(i)
    /\ UNCHANGED <<variant, fs, selected_paths, dlgVars, listRev, filterVars,
                   project_path, format_var, fpdf, writable, controls,
                   progress_bar, btn_open_output, outcomes>>

\* _process_log_queue takes a message off the queue; a message box is modal,
\* so that the thread may run between two messages of one callback
Pro_process_log_queue ==
    /\ variant = "pro" /\ log_queue # <<>>
    /\ LET h == Pro_handle_msg(Head(log_queue), progress_bar, outcomes, controls)
       IN  progress_bar' = h.bar /\ outcomes' = h.boxes /\ controls' = h.enabled
    \* on END_PROCESS: if self.last_output_path, the button is enabled
    /\ btn_open_output' = IF Head(log_queue) = EndMsg /\ last_output_path # <<>>
                          THEN TRUE ELSE btn_open_output
    /\ log_queue' = Tail(log_queue)
    /\ UNCHANGED <<variant, fs, selected_paths, dlgVars, scanVars, filterVars,
                   project_path, format_var, fpdf, writable, workers,
                   last_output_path, outputs, sent, job>>

(***************************************************************************)
(* Jobs: specification.  The settings of the main window are drawn at the  *)
(* start; the selection {r/a.txt} with the folder r/sub is what typing a    *)
(* new folder after a selection leaves.                                    *)
(***************************************************************************)
\* project_path: "", r, r/sub, a file and a path that does not exist
ProjectInputs == { <<>>, <<"r">>, <<"r", "sub">>, <<"r", "a.txt">>, <<"gone">> }

\* exts_var: "*", ".txt", "!txt"
JobExtInputs == { <<"*">>, <<".","t","x","t">>, <<"!","t","x","t">> }

InitJob ==
    /\ variant \in {"basic", "pro"}
    /\ fs = "plain"
    /\ selected_paths \in { {}, {<<"r", "a.txt">>} }
    /\ dlgOpen = FALSE /\ preselected = {}
    /\ checked = <<>> /\ kids = (Top :> <<>>)
    /\ item_paths = <<>> /\ placeholder = {}
    /\ var_filter = <<>> /\ filter_job = FALSE
    /\ result = NoResult /\ dialogs = 0
    /\ touched = FALSE /\ lastClick = <<>> /\ twice = <<>> /\ inverted = <<>> /\ crashed = ""
    /\ scanSel = NoSelection /\ listRev = FALSE /\ scanned = FALSE
    /\ arbol = <<>> /\ files = <<>>
    /\ exts_var \in JobExtInputs /\ probe = <<>> /\ matchRes = <<>>
    /\ project_path \in ProjectInputs
    /\ format_var \in 0..2
    /\ fpdf \in BOOLEAN /\ writable \in BOOLEAN
    /\ workers = <<>> /\ log_queue = <<>> /\ controls = TRUE
    /\ progress_bar = <<0, 1>> /\ last_output_path = <<>> /\ btn_open_output = FALSE
    /\ outputs = <<>> /\ sent = <<>> /\ outcomes = <<>>
    /\ job = [start |-> Inputs, held |-> Inputs, n |-> 0]

NextJob ==
    \/ Basic_run_conversion
    \/ \E i \in 1..MaxWorkers : Basic_convert(i)
    \/ Pro_run_conversion
    \/ \E i \in 1..MaxWorkers : Pro_convert_step(i)
    \/ Pro_process_log_queue

SpecJob == InitJob /\ [][NextJob]_vars

\* a live thread is scheduled again and again, and _process_log_queue, which
\* ends with root.after(100, self._process_log_queue), runs again and again
SpecJobFair ==
    /\ InitJob /\ [][NextJob]_vars
    /\ WF_vars(\E i \in 1..MaxWorkers : Pro_convert_step(i))
    /\ WF_vars(Pro_process_log_queue)

(***************************************************************************)
(* Jobs while the window is used: specification.  The controls that a job  *)
(* leaves enabled are used while its thread runs.                          *)
(***************************************************************************)
\* how many message boxes a run shows before nothing more is dropped
MaxBoxes == 2

\* entry_exts, which _toggle_controls leaves enabled: text is typed
Pro_edit_exts(text) ==
    /\ variant = "pro" /\ text # exts_var
    /\ exts_var' = text
    /\ UNCHANGED <<variant, fs, selected_paths, dlgVars, scanVars, probe, matchRes,
                   jobVars>>

\* _handle_drop: the drop target on entry_path, which no state of the entry
\* unregisters, receives the path p
Pro_handle_drop(p) ==
    /\ variant = "pro" /\ Len(outcomes) < MaxBoxes
    /\ IF is_dir(p)
       THEN project_path' = p /\ UNCHANGED outcomes
       ELSE /\ outcomes' = Append(outcomes, Box("showwarning", "Entrada no válida"))
            /\ UNCHANGED project_path
    /\ UNCHANGED <<variant, fs, selected_paths, dlgVars, scanVars, filterVars,
                   format_var, fpdf, writable, workers, log_queue, controls,
                   progress_bar, last_output_path, btn_open_output, outputs, sent, job>>

\* the radio buttons of the format, which the basic variant never disables
Basic_set_format(idx) ==
    /\ variant = "basic" /\ idx # format_var
    /\ format_var' = idx
    /\ UNCHANGED <<variant, fs, selected_paths, dlgVars, scanVars, filterVars,
                   project_path, fpdf, writable, workers, log_queue, controls,
                   progress_bar, last_output_path, btn_open_output, outputs, sent, outcomes, job>>

\* what is dropped on the window: a folder, another folder and a file
DropInputs == { <<"r">>, <<"r", "sub">>, <<"r", "a.txt">> }

InitRace ==
    InitJob /\ fpdf /\ writable /\ format_var = 1 /\ project_path \in {<<>>, <<"r">>}

NextRace ==
    \/ NextJob
    \/ \E text \in JobExtInputs : Pro_edit_exts(text)
    \/ \E p \in DropInputs : Pro_handle_drop(p)
    \/ \E idx \in {1, 2} : Basic_set_format(idx)
    \/ Basic_select_folder

SpecRace == InitRace /\ [][NextRace]_vars

(***************************************************************************)
(* Jobs after the folder was changed: specification.                       *)
(***************************************************************************)
\* the entry of the folder, which the basic variant never disables: a path
\* is typed
Basic_edit_path(path) ==
    /\ variant = "basic" /\ path # project_path
    /\ project_path' = path
    /\ UNCHANGED <<variant, fs, selected_paths, dlgVars, scanVars, filterVars,
                   format_var, fpdf, writable, workers, log_queue, controls,
                   progress_bar, last_output_path, btn_open_output, outputs, sent, outcomes, job>>

\* entry_path, which is enabled: a path is typed
Pro_edit_path(path) ==
    /\ variant = "pro" /\ controls /\ path # project_path
    /\ project_path' = path
    /\ UNCHANGED <<variant, fs, selected_paths, dlgVars, scanVars, filterVars,
                   format_var, fpdf, writable, workers, log_queue, controls,
                   progress_bar, last_output_path, btn_open_output, outputs, sent, outcomes, job>>

\* the folders chosen or typed
FolderInputs == { <<"r">>, <<"r", "sub">> }

NextFolder ==
    \/ \E path \in FolderInputs : Basic_select_folder_to(path)
    \/ \E path \in FolderInputs : Basic_edit_path(path)
    \/ Basic_run_conversion
    \/ \E i \in 1..MaxWorkers : Basic_convert(i)
    \/ \E path \in FolderInputs : Pro_select_folder_to(path)
    \/ \E path \in FolderInputs : Pro_edit_path(path)
    \/ \E p \in DropInputs : Pro_handle_drop(p)
    \/ Pro_run_conversion
    \/ \E i \in 1..MaxWorkers : Pro_convert_step(i)
    \/ Pro_process_log_queue

SpecFolder == InitRace /\ [][NextFolder]_vars

(***************************************************************************)
(* Progress: specification.  A job of the pro variant has just been        *)
(* started on a folder of many files, of which the scan keeps some; the    *)
(* names and lines of the files do not bear on the progress, so that every *)
(* file stands as an empty file a.txt.                                     *)
(***************************************************************************)
\* how many files the folder holds at most
MaxPaths == 201

\* how many files rglob finds
PathCounts == {0, 1, 100, 101, MaxPaths}

\* how many of n files the scan keeps
KeptCounts(n) == {0, 1, 50, 51, n} \cap 0..n

\* what scan_project returns when it keeps k files
ManyFiles(k) ==
    [arbol |-> (<<>> :> [j \in 1..k |-> "a.txt"]),
     files |-> [j \in 1..k |-> << <<"a.txt">>, <<>> >>]]

InitProgress ==
    /\ variant = "pro"
    /\ fs = "plain"
    /\ selected_paths = {}
    /\ dlgOpen = FALSE /\ preselected = {}
    /\ checked = <<>> /\ kids = (Top :> <<>>)
    /\ item_paths = <<>> /\ placeholder = {}
    /\ var_filter = <<>> /\ filter_job = FALSE
    /\ result = NoResult /\ dialogs = 0
    /\ touched = FALSE /\ lastClick = <<>> /\ twice = <<>> /\ inverted = <<>> /\ crashed = ""
    /\ scanSel = NoSelection /\ listRev = FALSE /\ scanned = FALSE
    /\ arbol = <<>> /\ files = <<>>
    /\ exts_var = <<"*">> /\ probe = <<>> /\ matchRes = <<>>
    /\ project_path = <<"r">>
    /\ format_var \in {1, 2}
    /\ fpdf = TRUE /\ writable = TRUE
    /\ \E n \in PathCounts : \E k \in KeptCounts(n) :
         workers = << Pro_convert_steps(FmtOf(format_var), n, ManyFiles(k),
                                        NoSelection, exts_var, writable) >>
    /\ log_queue = <<>> /\ controls = FALSE
    /\ progress_bar = <<0, 1>> /\ last_output_path = <<>> /\ btn_open_output = FALSE
    /\ outputs = <<>> /\ sent = <<>> /\ outcomes = <<>>
    /\ job = [start |-> Inputs, held |-> Inputs, n |-> 1]

NextProgress ==
    \/ \E i \in 1..MaxWorkers : Pro_convert_step(i)
    \/ Pro_process_log_queue

SpecProgress == InitProgress /\ [][NextProgress]_vars

(***************************************************************************)
(* The extension filter: specification.  parse_exts is applied to a text   *)
(* typed into the extension entry and should_convert to a path.            *)
(***************************************************************************)
\* "", "*", " * ", "todos", " TODOS ", "  ", ".py,.md,!pdf", "!pdf",
\* ".py,!py", " PY , .Md ", "Todos", ",", "!", "..txt"
ExtSpecInputs ==
    { <<>>, <<"*">>, <<" ","*"," ">>, <<"t","o","d","o","s">>,
      <<" ","T","O","D","O","S"," ">>, <<" "," ">>,
      <<".","p","y",",",".","m","d",",","!","p","d","f">>,
      <<"!","p","d","f">>, <<".","p","y",",","!","p","y">>,
      <<" ","P","Y"," ",","," ",".","M","d"," ">>,
      <<"T","o","d","o","s">>, <<",">>, <<"!">>, <<".",".","t","x","t">> }

\* the paths should_convert is asked about
ProbeInputs ==
    { <<"a.py">>, <<"sub", "b.md">>, <<"c.pdf">>, <<"d.txt">>, <<"E.PY">>,
      <<"Makefile">>, <<"sub", ".git", "config">> }

InitFilter ==
    /\ variant = "pro" /\ fs = "plain"
    /\ exts_var \in ExtSpecInputs
    /\ probe \in ProbeInputs
    /\ matchRes = <<>>
    /\ selected_paths = {}
    /\ dlgOpen = FALSE /\ preselected = {}
    /\ checked = <<>> /\ kids = (Top :> <<>>)
    /\ item_paths = <<>> /\ placeholder = {}
    /\ var_filter = <<>> /\ filter_job = FALSE
    /\ result = NoResult /\ dialogs = 0
    /\ touched = FALSE /\ lastClick = <<>> /\ twice = <<>> /\ inverted = <<>> /\ crashed = ""
    /\ scanSel = {} /\ listRev = FALSE /\ scanned = FALSE
    /\ arbol = <<>> /\ files = <<>>
    /\ JobIdle

\* allowed_exts = parse_exts(self.exts_var.get()); should_convert(rel_path)
Pro_parse_and_match ==
    /\ matchRes = <<>>
    /\ matchRes' = << parse_exts(exts_var),
                      Pro_should_convert(parse_exts(exts_var), probe) >>
    /\ UNCHANGED <<variant, fs, selected_paths, dlgVars, scanVars,
                   exts_var, probe, jobVars>>

NextFilter == Pro_parse_and_match

SpecFilter == InitFilter /\ [][NextFilter]_vars

\* the extension of a path as should_convert compares it
ExtOf(rel_path) == lower(Suffix(Last(rel_path)))

\* C11: parse_exts returns the match-everything value for "*", "" and
\* "todos", also when the text is surrounded by whitespace, and every path
\* then matches whatever its extension.
C11_AllWordsMatchAll ==
    (matchRes # <<>> /\ strip(exts_var) \in { <<>>, <<"*">>, <<"t","o","d","o","s">> }) =>
        /\ matchRes[1] = NoFilter
        /\ matchRes[2] = TRUE
        /\ \A q \in ProbeInputs : Pro_should_convert(matchRes[1], q)

C11_Witness ==
    /\ matchRes # <<>> /\ exts_var = <<" ","*"," ">>
    /\ probe = <<"c.pdf">> /\ matchRes[2] = TRUE

\* C12: with a parsed rule set (include, exclude) a path is rejected when
\* its lower-cased extension is excluded, and otherwise accepted iff the
\* include set is empty or holds the extension; ".py,.md,!pdf" accepts
\* a.py and b.md and rejects c.pdf and d.txt.
C12_ExcludeWins ==
    (matchRes # <<>> /\ matchRes[1] # NoFilter) =>
        /\ matchRes[2] = IF ExtOf(probe) \in matchRes[1][2] THEN FALSE
                         ELSE (matchRes[1][1] = {} \/ ExtOf(probe) \in matchRes[1][1])
        /\ exts_var = <<".","p","y",",",".","m","d",",","!","p","d","f">> =>
              /\ matchRes[1] = << { <<".","p","y">>, <<".","m","d">> },
                                  { <<".","p","d","f">> } >>
              /\ matchRes[2] = (probe \in { <<"a.py">>, <<"sub", "b.md">>, <<"E.PY">> })

C12_Witness ==
    /\ matchRes # <<>> /\ exts_var = <<".","p","y",",","!","p","y">>
    /\ probe = <<"a.py">> /\ matchRes[2] = FALSE

(***************************************************************************)
(* Jobs: properties                                                        *)
(***************************************************************************)
\* export_txt of the running job has closed its file
TxtClosed == LogMsg("-> Archivo TXT generado.") \in SeqToSet(sent)

\* where the headings of a body are
HeadPos(body) ==
    SelectSeq([i \in 1..Len(body) |-> i], LAMBDA i : body[i].type = "heading")

\* the lines written after the j-th heading and before the next one
LinesAfter(body, j) ==
    LET pos == HeadPos(body)
        to == IF j < Len(pos) THEN pos[j + 1] - 1 ELSE Len(body)
        seg == SelectSeq(SubSeq(body, pos[j] + 1, to), LAMBDA it : it.type = "line")
    IN  [k \in 1..Len(seg) |-> seg[k].text]

\* the filter of the job accepts the path
Matches(rel_path) == Pro_should_convert(parse_exts(exts_var), rel_path)

\* C13: the text file of the pro variant holds one heading for each entry of
\* files, in the order of files; after the heading of an entry the filter
\* accepts come its lines as they were read, and the heading of an entry the
\* filter rejects is marked as not converted and no line follows it.
C13_TxtOneHeadingPerEntry ==
    (variant = "pro" /\ TxtClosed) =>
        LET body == outputs[OutputFile("txt")].body
            pos == HeadPos(body)
        IN  /\ Len(pos) = Len(files)
            /\ \A j \in 1..Len(files) :
                 /\ body[pos[j]].path = files[j][1]
                 /\ body[pos[j]].conv = Matches(files[j][1])
                 /\ LinesAfter(body, j) =
                      IF Matches(files[j][1]) THEN files[j][2] ELSE <<>>

\* a closed text file with an accepted entry that has lines and a rejected one
C13_Witness ==
    /\ variant = "pro" /\ TxtClosed
    /\ \E j \in 1..Len(files) : Matches(files[j][1]) /\ files[j][2] # <<>>
    /\ \E j \in 1..Len(files) : ~Matches(files[j][1]) /\ files[j][2] # <<>>
    /\ Len(HeadPos(outputs[OutputFile("txt")].body)) = Len(files)

\* the job that ran last has ended with the box of success
Succeeded == outcomes # <<>> /\ outcomes[Len(outcomes)].type = "showinfo"

\* how many lines the entries before the j-th hold
RECURSIVE RowsBefore(_, _)
RowsBefore(fls, j) ==
    IF j <= 1 THEN 0 ELSE RowsBefore(fls, j - 1) + Len(fls[j - 1][2])

\* c is the line ln without the newline at its end
Stripped(ln, c) ==
    /\ ln = c \/ ln = Append(c, "\n")
    /\ c = <<>> \/ Last(c) # "\n"

\* listado.csv holds the header and, for each line of each entry of files, a
\* row with the path, the number of the line from 1 and the stripped line
CsvAsClaimed ==
    /\ OutputFile("csv") \in DOMAIN outputs
    /\ LET f == outputs[OutputFile("csv")]
       IN  /\ f.header = <<"path", "line_no", "content">>
           /\ Len(f.rows) = RowsBefore(files, Len(files) + 1)
           /\ \A j \in 1..Len(files) : \A k \in 1..Len(files[j][2]) :
                LET row == f.rows[RowsBefore(files, j) + k]
                IN  /\ row[1] = files[j][1]
                    /\ row[2] = k
                    /\ Stripped(files[j][2][k], row[3])

\* C14: a job that was asked for CSV and has ended in success has written the
\* header path,line_no,content and one row for each source line of each
\* entry, numbered from 1 within the file, without the newline at its end.
C14_CsvRows == (format_var = 2 /\ Succeeded) => CsvAsClaimed

\* a job has started and its END_PROCESS has not been taken off the queue
JobActive == workers # <<>> \/ EndMsg \in SeqToSet(log_queue)

\* C15: in the pro variant the controls that start a job are disabled
\* exactly while a job has started and its END_PROCESS has not been
\* consumed by _process_log_queue, and there is never more than one
\* _convert thread.
C15_ControlsOffWhileJob ==
    variant = "pro" => /\ Len(workers) <= 1
                       /\ controls <=> ~JobActive

\* the thread is over and its final message was shown, END_PROCESS is still
\* on the queue and the controls are still disabled
C15_Witness ==
    /\ variant = "pro" /\ workers = <<>> /\ outcomes # <<>>
    /\ log_queue = <<EndMsg>> /\ ~controls

\* the final messages the thread of the job has put so far
Finals == SelectSeq(sent, LAMBDA msg : msg.kind \in BoxTypes)

\* where END_PROCESS is among the messages put
EndPos == { i \in 1..Len(sent) : sent[i] = EndMsg }

\* C16: a _convert thread of the pro variant never puts two final messages;
\* once it is over it has put exactly one (showinfo, showwarning or
\* showerror), and END_PROCESS is put once, after it, as the last message.
C16_OneFinalBeforeEnd ==
    variant = "pro" =>
        /\ Len(Finals) <= 1
        /\ (workers = <<>> /\ sent # <<>>) => EndPos # {}
        /\ EndPos # {} =>
             /\ EndPos = {Len(sent)}
             /\ Len(Finals) = 1
             /\ \E i \in 1..(Len(sent) - 1) : sent[i].kind \in BoxTypes

\* a job that found nothing is over: its only final message is the warning
C16_Witness ==
    /\ variant = "pro" /\ workers = <<>> /\ EndPos # {}
    /\ Len(Finals) = 1 /\ Finals[1].kind = "showwarning"

(***************************************************************************)
(* Progress: properties                                                    *)
(***************************************************************************)
\* the progress messages the thread has put so far
Prog == SelectSeq(sent, LAMBDA msg : msg.kind = "progress")

\* a.num / a.den <= b.num / b.den
RatLeq(a, b) == a.num * b.den <= b.num * a.den

\* lo <= msg.num / msg.den <= hi
RatIn(msg, lo, hi) == lo * msg.den <= msg.num /\ msg.num <= hi * msg.den

\* a log text is among the messages put before the i-th
PutBefore(text, i) == \E j \in 1..(i - 1) : sent[j] = LogMsg(text)

\* the i-th message was put by scan_project / by export_txt
InScan(i) == ~PutBefore("-> Escaneo finalizado.", i)

InExport(i) ==
    PutBefore("-> Generando archivo TXT...", i) /\ ~PutBefore("-> Archivo TXT generado.", i)

\* C17: the progress values a job of the pro variant puts never decrease;
\* those of scan_project lie in 0..20 and those of export_txt in 20..100;
\* a job that puts showinfo has put 100 as its last progress value; and the
\* progress bar is never ahead of a value that is still on the queue, so
\* that the values applied to it never decrease either.
C17_ProgressMonotone ==
    variant = "pro" =>
        /\ \A i \in 1..(Len(Prog) - 1) : RatLeq(Prog[i], Prog[i + 1])
        /\ \A i \in 1..Len(sent) :
             sent[i].kind = "progress" =>
                /\ InScan(i) => RatIn(sent[i], 0, 20)
                /\ InExport(i) => RatIn(sent[i], 20, 100)
        /\ (\E i \in 1..Len(sent) : sent[i].kind = "showinfo") =>
             /\ Prog # <<>>
             /\ Prog[Len(Prog)].num = 100 * Prog[Len(Prog)].den
        /\ \A i \in 1..Len(log_queue) :
             log_queue[i].kind = "progress" =>
                progress_bar[1] * log_queue[i].den <= log_queue[i].num * progress_bar[2]

\* a successful job on MaxPaths files: three values of the scan, five of the
\* export and the last one, all of them applied to the bar
C17_Witness ==
    /\ variant = "pro" /\ Len(Prog) = 9 /\ progress_bar = <<100, 1>>
    /\ \E i \in 1..Len(sent) :
         sent[i].kind = "progress" /\ InScan(i) /\ sent[i].num > 0
    /\ \E i \in 1..Len(sent) :
         sent[i].kind = "progress" /\ InExport(i) /\ sent[i].num > 20 * sent[i].den

(***************************************************************************)
(* Jobs: the outcomes of the jobs that cannot export                       *)
(***************************************************************************)
\* every box shown, and every final message put, is of the given type
OnlyOutcome(type) ==
    /\ \A i \in 1..Len(outcomes) : outcomes[i].type = type
    /\ \A i \in 1..Len(Finals) : Finals[i].kind = type

\* a job has come to its outcome
HasOutcome == outcomes # <<>> \/ Finals # <<>>

\* the folder of the job is a directory
ValidBase == is_dir(BaseOf(project_path))

\* C18: a job whose base path is not an existing directory scans nothing,
\* writes no file, and every outcome it reports is an error.
C18_InvalidBaseRejected ==
    ~ValidBase => /\ ~scanned
                  /\ outputs = <<>>
                  /\ OnlyOutcome("showerror")

\* C19: a job that is asked for PDF without fpdf and has entries to export
\* writes no file, and every outcome it reports is the error that names the
\* missing fpdf2.
C19_PdfWithoutFpdfFails ==
    (format_var = 0 /\ ~fpdf /\ ValidBase /\ scanned /\ files # <<>>) =>
        /\ outputs = <<>>
        /\ OnlyOutcome("showerror")
        /\ \A i \in 1..Len(outcomes) : outcomes[i].text = "Instala primero fpdf2"

\* C20: every outcome of a job whose scan of a directory has kept no entry
\* is a warning.
C20_EmptyResultWarns ==
    (ValidBase /\ scanned /\ files = <<>>) => OnlyOutcome("showwarning")

(***************************************************************************)
(* Reading: properties                                                     *)
(***************************************************************************)
\* the lines are the single line that marks a file that could not be read
IsReadFailure(lines) ==
    Len(lines) = 1 /\ lines[1][1] = "[ERROR: No se pudo leer el archivo]"

\* C21: after a scan every file the selection allows has a content entry,
\* and the lines of an entry are the decoded lines of the file when its
\* bytes are UTF-8 or not, and the one line that marks the read failure when
\* the file cannot be opened.
C21_ReadNeverAborts ==
    scanned =>
        /\ \A f \in FilesOnDisk :
             FileIsAllowed(f) => relative_to(f, Base) \in ContentFiles
        /\ \A i \in 1..Len(files) :
             LET f == Base \o files[i][1]
             IN  IF Encoding(f) = "error" THEN IsReadFailure(files[i][2])
                 ELSE files[i][2] = DiskLines(f)

(***************************************************************************)
(* The filter and the scan result                                          *)
(***************************************************************************)
\* what scan_project of the pro variant returns for the folder and the
\* selection of the job, whatever exts_var is
JobScan == Pro_scan_project(BaseOf(project_path), SelArg(selected_paths))

\* C22: in the pro variant the index tree and the content entries of a job
\* are those of the scan of the folder under the selection, whatever the
\* filter text is, and they are still so after export_txt has written the
\* file; the index section of the file is the listing of the whole index
\* tree, the same as for every other filter text.
C22_FilterOnlyBody ==
    (variant = "pro" /\ scanned) =>
        /\ arbol = JobScan.arbol /\ files = JobScan.files
        /\ TxtClosed =>
             /\ outputs[OutputFile("txt")].tree = tree_txt(arbol, <<>>, 0)
             /\ \A x \in JobExtInputs :
                  Pro_export_txt(arbol, files, parse_exts(x)).tree
                    = outputs[OutputFile("txt")].tree

\* a file was written under a filter that rejects an entry the index lists
C22_Witness ==
    /\ variant = "pro" /\ scanned /\ TxtClosed
    /\ parse_exts(exts_var) # NoFilter
    /\ \E j \in 1..Len(files) : ~Matches(files[j][1]) /\ files[j][1] \in IndexFiles
    /\ Len(outputs[OutputFile("txt")].tree) >= Len(files)

(***************************************************************************)
(* The selection dialogs: a click on a directory                           *)
(***************************************************************************)
\* the nodes of the dialog below d, at every depth, hidden ones included
DescendantsOf(d) == { c \in Nodes : Len(c) > Len(d) /\ IsPrefix(d, c) }

\* C23: right after a click on a directory, the directory is checked or
\* unchecked and every node below it, hidden by the filter or not, is in the
\* state of the directory.
C23_ToggleForcesDescendants ==
    (dlgOpen /\ lastClick # <<>> /\ is_dir(lastClick[1])) =>
        /\ checked[lastClick[1]] \in {"checked", "unchecked"}
        /\ \A c \in DescendantsOf(lastClick[1]) : checked[c] = checked[lastClick[1]]

\* C24: right after a click on a node that was partial, the node and every
\* node below it are checked.
C24_PartialToChecked ==
    (dlgOpen /\ lastClick # <<>> /\ lastClick[2] = "partial") =>
        /\ checked[lastClick[1]] = "checked"
        /\ \A c \in DescendantsOf(lastClick[1]) : checked[c] = "checked"

(***************************************************************************)
(* The selection dialogs: the state a node is inserted with                *)
(***************************************************************************)
\* the path is a pre-selected path or lies below one
UnderPreselected(n) == \E q \in preselected : IsPrefix(q, n)

\* C25: as long as nothing was toggled since the dialog opened, a node is
\* checked when its path is a pre-selected path or lies below one; if not,
\* it is in the state of its parent, and unchecked when it has none.
C25_InitialState ==
    (dlgOpen /\ ~touched) =>
        \A n \in Nodes :
            checked[n] = IF UnderPreselected(n) THEN "checked"
                         ELSE IF Front(n) \in Nodes THEN checked[Front(n)]
                         ELSE "unchecked"

(***************************************************************************)
(* The pro dialog: the inversion                                           *)
(***************************************************************************)
\* C26: right after "invert" in the pro dialog every file of the tree is
\* checked iff it was unchecked before, and every directory that has
\* children in the tree is checked iff all of them are.
C26_InvertFlipsLeaves ==
    (dlgOpen /\ inverted # <<>>) =>
        \A n \in Nodes :
            /\ IsLeaf(n) => (checked[n] = "checked" <=> inverted[1][n] = "unchecked")
            /\ (is_dir(n) /\ ChildrenOf(n) # {}) =>
                 (checked[n] = "checked"
                    <=> \A c \in ChildrenOf(n) : checked[c] = "checked")

\* an inversion of a tree whose files were not all in one state
C26_Witness ==
    /\ dlgOpen /\ inverted # <<>> /\ variant = "pro"
    /\ \E a, b \in Nodes :
          /\ IsLeaf(a) /\ IsLeaf(b)
          /\ checked[a] = "checked" /\ checked[b] = "unchecked"
          /\ inverted[1][a] = "unchecked" /\ inverted[1][b] = "checked"


\* C27: a permission or not-found error raised while a directory of the tree
\* is listed is absorbed there: the constructor of the dialog raises nothing,
\* the dialog is shown, the failing directory has no children and every
\* other entry of the project is in the tree.
C27_EnumerationErrorAbsorbed ==
    /\ crashed = ""
    /\ (dlgOpen /\ fs \in DiskErrors /\ <<"r","sub">> \notin placeholder) =>
           /\ Nodes \cap {<<"r">>, <<"r","sub">>, <<"r","a.txt">>}
                 = {<<"r">>, <<"r","sub">>, <<"r","a.txt">>}
           /\ kids[<<"r","sub">>] = <<>>
           /\ <<"r","sub">> \in SeqToSet(kids[<<"r">>])
           /\ <<"r","a.txt">> \in SeqToSet(kids[<<"r">>])

\* the failing directory listed and its error absorbed, in a dialog on screen
C27_Absorbed ==
    /\ dlgOpen /\ fs \in DiskErrors /\ crashed = ""
    /\ <<"r","sub">> \in Nodes /\ <<"r","sub">> \notin placeholder
    /\ kids[<<"r","sub">>] = <<>>

\* the constructor of the basic dialog let the error of a vanished directory out
C27_ConstructorRaised ==
    variant = "basic" /\ fs = "vanished" /\ crashed = "FileNotFoundError" /\ ~dlgOpen

\* C28: in the basic variant at most one _convert thread is alive at any
\* time: "Convertir" starts no second thread while one has not finished.
C28_OneBasicWorker == variant = "basic" => Len(workers) <= 1

\* C29: while a job runs, the window's folder, selection, extension filter
\* and format stay what they were when the job was started, and what the
\* thread has read of them is what they were when the job was started.
C29_InputsFrozen ==
    /\ job.held = job.start
    /\ workers # <<>> => Inputs = job.start

\* the thread read an extension filter that was typed after "Convertir"
C29_LateRead ==
    /\ variant = "pro" /\ scanned /\ job.held.exts # job.start.exts
    /\ job.held.exts = exts_var

\* C30: under fair scheduling of the _convert thread and of
\* _process_log_queue, a job of the pro variant that has been started (its
\* controls are disabled) leads to END_PROCESS having been put on the queue
\* and the controls being enabled again.
C30_JobEnds ==
    (variant = "pro" /\ ~controls) ~> (controls /\ EndMsg \in SeqToSet(sent))

\* a job of the pro variant has ended and its controls are enabled again
C30_Witness ==
    /\ variant = "pro" /\ controls /\ workers = <<>> /\ log_queue = <<>>
    /\ EndMsg \in SeqToSet(sent)

\* C31: a step of 'select all' leaves every node of the tree checked, and a
\* step of 'deselect all' leaves every node unchecked, in either variant and
\* whatever the filter hides.
C31_BulkSetsAll ==
    [][ /\ (Basic_check_all \/ Pro_select_all) =>
              \A n \in DOMAIN checked' : checked'[n] = "checked"
        /\ (Basic_uncheck_all \/ Pro_deselect_all) =>
              \A n \in DOMAIN checked' : checked'[n] = "unchecked" ]_vars

\* the files that have a node in the dialog's tree
FileNodes == { f \in Nodes : is_file(f) }

\* the scan that ran is the scan of what the dialog just returned
ScannedResult ==
    /\ scanned /\ ~dlgOpen /\ result # NoResult /\ result[1] # {}
    /\ result[1] = selected_paths /\ scanSel = <<selected_paths>>

\* C32: after a dialog was accepted with a non-empty result and the scan of
\* that result ran, a file whose node was checked on accept has a content
\* entry, and a file whose node was unchecked has none.
C32_ShownIsScanned ==
    ScannedResult =>
        \A f \in FileNodes : (checked[f] = "checked") <=> (Tail(f) \in ContentFiles)

\* nothing is typed in the filter of the dialog
FilterUntouched ==
    IF variant = "basic" THEN var_filter = <<>>
    ELSE var_filter = <<<<>>, <<>>>> /\ ~filter_job

\* a dialog that was opened on a non-empty selection has been accepted, and
\* nothing was toggled and no filter typed in between
AcceptedAsOpened ==
    /\ ~dlgOpen /\ result # NoResult /\ preselected # {}
    /\ ~touched /\ FilterUntouched

\* C33: a dialog opened on the current non-empty selection and accepted
\* without a toggle, a bulk operation or a filter change returns that
\* selection.
C33_AcceptRoundTrip == AcceptedAsOpened => result[1] = preselected

\* the paths accept would return
CheckedPaths(chk) == { n \in DOMAIN chk : chk[n] = "checked" }

\* C34: a step that applies a new filter text to the tree leaves every
\* checked path checked: it changes what is displayed and nothing else.
C34_FilterKeepsSelection ==
    [][ ((\E text \in FilterInputs : Basic_filter(text)) \/ Pro_filter_fires) =>
            CheckedPaths(checked) \subseteq CheckedPaths(checked') ]_vars

\* the path q lies in the directory base or below it
Under(q, base) == IsPrefix(base, resolve(q))

\* C35: a job that is started with a non-empty selection is started on a
\* folder that holds every path of the selection.
C35_SelectionUnderBase ==
    workers # <<>> =>
        \A q \in job.start.sel : Under(q, BaseOf(job.start.path))

\* the formats a job may be asked for
Formats == {"pdf", "txt", "csv"}

\* C36: when a job of the pro variant has ended in success, the file its
\* success message names is a file the job wrote, and it is of the format
\* that was asked for.
C36_SuccessNamesWrittenFile ==
    (variant = "pro" /\ Succeeded) =>
        \A fmt \in Formats :
            outcomes[Len(outcomes)].text = Generated(fmt) =>
                /\ fmt = FmtOf(format_var)
                /\ OutputFile(fmt) \in DOMAIN outputs
                /\ outputs[OutputFile(fmt)].kind = fmt

\* C37: in the pro variant the button that opens the output folder is
\* enabled only when the last job wrote an output file: after a job that
\* ended with a warning or an error it is disabled.
C37_OpenOnlyAfterWrite ==
    (variant = "pro" /\ btn_open_output) => DOMAIN outputs # {}

\* the messages of sent that _process_log_queue has taken off the queue
Consumed == SubSeq(sent, 1, Len(sent) - Len(log_queue))

\* the queue holds the last messages that the job started last has put
QueueOfThisJob ==
    /\ Len(log_queue) <= Len(sent)
    /\ log_queue = SubSeq(sent, Len(sent) - Len(log_queue) + 1, Len(sent))

\* the progress bar shows 0 or what a consumed message of this job said
BarOfThisJob ==
    \/ progress_bar = <<0, 1>>
    \/ \E i \in 1..Len(Consumed) :
          /\ Consumed[i].kind = "progress"
          /\ progress_bar = <<Consumed[i].num, Consumed[i].den>>

\* C38: in the pro variant a job can be started only when the queue is
\* empty and no thread is alive, so that every queued message was put by
\* the job started last, and the progress bar, once reset for a job, shows
\* only what a message of that job said.
C38_NoStaleMessages ==
    variant = "pro" =>
        /\ controls => (log_queue = <<>> /\ workers = <<>>)
        /\ QueueOfThisJob
        /\ BarOfThisJob

\* a second job is under way and one of its progress messages was shown
C38_Witness ==
    /\ variant = "pro" /\ job.n = 2 /\ workers # <<>>
    /\ progress_bar # <<0, 1>>
====
